---------------------------- MODULE Spec2Model ----------------------------
(***************************************************************************)
(* A model of the garbled-circuit millionaires' protocol: plaintext        *)
(* circuits (circuit.rs), garbling (garbling.rs), the receiver's view and  *)
(* evaluator (receiver_backend.rs), the comparison-circuit builder and the *)
(* shipping code (garbler_backend.rs), the RSA oblivious transfer (ot.rs)  *)
(* and the two binaries' sessions (bin/garbler.rs, bin/receiver.rs).       *)
(*                                                                         *)
(* crypto::aes_ctr, crypto::rsa and message are not among the sources;     *)
(* they are modelled from the specification: the cipher as a counter-mode  *)
(* stream cipher (XOR with a keystream that is a function of key and       *)
(* counter, distinct keys having independent keystreams), RSA as modular   *)
(* exponentiation over a table of valid keypairs, the message stream as a  *)
(* FIFO of typed records.                                                  *)
(***************************************************************************)
EXTENDS Integers, Naturals, Sequences, FiniteSets, TLC

(***************************************************************************)
(* Bounds.                                                                 *)
(***************************************************************************)
\* Bytes per wire label (32 in the program, scaled down here).
KEY_SIZE == 2
\* Entropy streams 0..MaxSeed the random wire labels are drawn from.
MaxSeed == 3
\* Largest input index of the circuits the garbling bench enumerates.
MaxIdx == 1
\* Bits per party of the comparison circuit a session runs (10 in the binaries).
BITS == 2
\* Largest modulus under which the oblivious-transfer bench sends every message.
OtFull == 10
\* Bits of a usize and of the i64 fields of the messages (64 in the program).
WORD_BITS == 4
\* Longest line typed at a prompt.
MaxLine == 2

(***************************************************************************)
(* Bytes and labels.  A label is a [u8; KEY_SIZE]: a sequence of KEY_SIZE  *)
(* bytes, first byte first.                                                *)
(***************************************************************************)
Byte == 0..255

RECURSIVE Pow(_, _)
Pow(b, e) == IF e = 0 THEN 1 ELSE b * Pow(b, e - 1)

LabelSpace == Pow(256, KEY_SIZE)

RECURSIVE XorBits(_, _, _)
XorBits(a, b, w) ==
    IF w = 0 THEN 0
    ELSE (((a % 2) + (b % 2)) % 2) + 2 * XorBits(a \div 2, b \div 2, w - 1)

XorByte(a, b) == XorBits(a, b, 8)

XorBytes(x, y) == [i \in 1..Len(x) |-> XorByte(x[i], y[i])]

\* The KEY_SIZE-byte big-endian array holding the number k < 256^KEY_SIZE.
LabelOf(k) == [i \in 1..KEY_SIZE |-> (k \div Pow(256, KEY_SIZE - i)) % 256]

RECURSIVE FromBytesBe(_)
FromBytesBe(bytes) ==
    IF Len(bytes) = 0 THEN 0
    ELSE (256 * FromBytesBe(SubSeq(bytes, 1, Len(bytes) - 1))) + bytes[Len(bytes)]

RECURSIVE ToBytesBe(_)
ToBytesBe(k) ==
    IF k < 256 THEN <<k>> ELSE Append(ToBytesBe(k \div 256), k % 256)

(***************************************************************************)
(* The stream cipher.  A 2*KEY_SIZE-byte block is a record: hi, its first  *)
(* KEY_SIZE bytes, and lo, its last KEY_SIZE bytes.  The keystream's first *)
(* half is a byte string computed from the key; its second half is kept    *)
(* symbolic: lo is the set of (key, counter) keystreams XORed onto the     *)
(* zero bytes an odd number of times, so lo = {} exactly when the last     *)
(* KEY_SIZE bytes are all zero.                                            *)
(***************************************************************************)
KsHi(key, counter) ==
    [i \in 1..KEY_SIZE |->
        ((key[i] * 167) + (key[(i % KEY_SIZE) + 1] * 29) + (13 * i) + counter) % 256]

KsLo(key, counter) == {<<key, counter>>}

SymDiff(s, t) == (s \ t) \cup (t \ s)

AesCtr_encrypt(key, data, counter) ==
    [hi |-> XorBytes(data.hi, KsHi(key, counter)),
     lo |-> SymDiff(data.lo, KsLo(key, counter))]

AesCtr_decrypt(key, data, counter) ==
    [hi |-> XorBytes(data.hi, KsHi(key, counter)),
     lo |-> SymDiff(data.lo, KsLo(key, counter))]

\* [out, zeros].as_flattened(): the label followed by KEY_SIZE zero bytes.
Flattened(out) == [hi |-> out, lo |-> {}]

\* d.ends_with(&[0u8; KEY_SIZE])
EndsWithZeros(d) == d.lo = {}

(***************************************************************************)
(* get_net_worth (bin/garbler.rs, bin/receiver.rs): a line is a sequence   *)
(* of characters.                                                          *)
(***************************************************************************)
\* The characters a line is typed from.
Chars == {"0", "1", "+", " ", "X"}

Digits == {"0", "1", "2", "3", "4", "5", "6", "7", "8", "9"}

DigitValue(c) ==
    CASE c = "0" -> 0 [] c = "1" -> 1 [] c = "2" -> 2 [] c = "3" -> 3
      [] c = "4" -> 4 [] c = "5" -> 5 [] c = "6" -> 6 [] c = "7" -> 7
      [] c = "8" -> 8 [] c = "9" -> 9

\* str::trim: the line without its leading and trailing white space.
RECURSIVE Trim(_)
Trim(s) ==
    IF s = <<>> THEN s
    ELSE IF Head(s) = " " THEN Trim(Tail(s))
    ELSE IF s[Len(s)] = " " THEN Trim(SubSeq(s, 1, Len(s) - 1))
    ELSE s

\* str::to_lowercase
ToLowercase(s) == [i \in 1..Len(s) |-> IF s[i] = "X" THEN "x" ELSE s[i]]

\* The digits of s after an optional leading plus sign.
Unsigned(s) == IF s # <<>> /\ Head(s) = "+" THEN Tail(s) ELSE s

RECURSIVE DecimalValue(_)
DecimalValue(s) ==
    IF s = <<>> THEN 0
    ELSE (10 * DecimalValue(SubSeq(s, 1, Len(s) - 1))) + DigitValue(s[Len(s)])

\* s.parse::<usize>() is Ok: digits only, at least one, after an optional
\* plus sign, and a value a usize holds.
CanParse(s) ==
    /\ Unsigned(s) # <<>>
    /\ \A i \in 1..Len(Unsigned(s)) : Unsigned(s)[i] \in Digits
    /\ DecimalValue(Unsigned(s)) < Pow(2, WORD_BITS)

\* s.parse::<usize>().unwrap(), for s with CanParse(s)
ParseUsize(s) == DecimalValue(Unsigned(s))

(***************************************************************************)
(* Plaintext circuits (circuit.rs).                                        *)
(***************************************************************************)
AND_GATE == 8
OR_GATE == 14
XOR_GATE == 6
XNOR_GATE == 9
MY_GATE == 4

Input(i) == [kind |-> "Input", idx |-> i]
Gate(op, l, r) == [kind |-> "Gate", op |-> op, left |-> l, right |-> r]

\* (op & (1 << k)) != 0
OpBit(op, k) == (op \div Pow(2, k)) % 2 = 1

BoolToInt(b) == IF b THEN 1 ELSE 0

\* An evaluation that takes the right value for the high bit of the index.
RECURSIVE NodeEval_swapped(_, _)
NodeEval_swapped(node, input) ==
    IF node.kind = "Input" THEN input[node.idx + 1]
    ELSE OpBit(node.op,
               2 * BoolToInt(NodeEval_swapped(node.right, input))
                 + BoolToInt(NodeEval_swapped(node.left, input)))

\* Node::eval; input is a sequence of Booleans, input index i at position i + 1.
RECURSIVE NodeEval(_, _)
NodeEval(node, input) ==
    IF node.kind = "Input" THEN input[node.idx + 1]
    ELSE OpBit(node.op,
               2 * BoolToInt(NodeEval(node.left, input))
                 + BoolToInt(NodeEval(node.right, input)))

\* x & ((x | y) ^ z), the circuit of complex_circuit_test.
ComplexCircuit ==
    Gate(AND_GATE, Input(0), Gate(XOR_GATE, Gate(OR_GATE, Input(0), Input(1)), Input(2)))

\* Node::inputs: the input indices of the leaves, left to right, repeats kept.
RECURSIVE NodeInputs(_)
NodeInputs(node) ==
    IF node.kind = "Input" THEN <<node.idx>>
    ELSE NodeInputs(node.left) \o NodeInputs(node.right)

\* Node::n_inputs: sort, dedup, len.
n_inputs(node) ==
    LET inputs == NodeInputs(node)
    IN  Cardinality({inputs[k] : k \in 1..Len(inputs)})

Circuit_new(out) == [out |-> out, n |-> n_inputs(out)]

(***************************************************************************)
(* Randomness.  Every GarbledWire::new seeds a fresh generator from the    *)
(* operating system and fills on_key, then off_key.  The model draws the   *)
(* labels of one run from an entropy stream chosen at the start: stream    *)
(* `seed` hands out the labels EntropyStart(seed), EntropyStart(seed) + 1, *)
(* ... in the order the program draws them.  Labels of one stream are      *)
(* pairwise distinct; the streams differ in which labels begin with a zero *)
(* byte.                                                                   *)
(***************************************************************************)
Seeds == 0..MaxSeed

EntropyStart(seed) == (seed * (Pow(256, KEY_SIZE - 1) - 5)) % LabelSpace

Draw(seed, i) == LabelOf((EntropyStart(seed) + i) % LabelSpace)

(***************************************************************************)
(* Garbling (garbling.rs).                                                 *)
(***************************************************************************)
\* A wire whose two keys are one fill of the random generator.
GarbledWire_new_one_fill(seed, w) ==
    [on_key |-> Draw(seed, 2 * w), off_key |-> Draw(seed, 2 * w)]

\* GarbledWire::new, the w-th wire drawn in a run.
GarbledWire_new(seed, w) ==
    [on_key |-> Draw(seed, 2 * w), off_key |-> Draw(seed, (2 * w) + 1)]

\* An output wire with the labels of a random wire.
GarbledWire_out_wire_random ==
    [on_key |-> LabelOf(LabelSpace - 1), off_key |-> LabelOf(LabelSpace - 2)]

\* GarbledWire::out_wire
GarbledWire_out_wire ==
    [on_key |-> [i \in 1..KEY_SIZE |-> 1], off_key |-> [i \in 1..KEY_SIZE |-> 0]]

\* Ciphertexts whose rows 01 and 10 carry each other's output label.
assign_ciphertexts_swapped(op, left_wire, right_wire, parent_wire) ==
    LET out_on_key == parent_wire.on_key
        out_off_key == parent_wire.off_key
        out_00 == IF OpBit(op, 0) THEN out_on_key ELSE out_off_key
        out_01 == IF OpBit(op, 2) THEN out_on_key ELSE out_off_key
        out_10 == IF OpBit(op, 1) THEN out_on_key ELSE out_off_key
        out_11 == IF OpBit(op, 3) THEN out_on_key ELSE out_off_key
    IN  [c_00 |-> AesCtr_encrypt(left_wire.off_key,
                     AesCtr_encrypt(right_wire.off_key, Flattened(out_00), 0), 0),
         c_01 |-> AesCtr_encrypt(left_wire.off_key,
                     AesCtr_encrypt(right_wire.on_key, Flattened(out_01), 0), 0),
         c_10 |-> AesCtr_encrypt(left_wire.on_key,
                     AesCtr_encrypt(right_wire.off_key, Flattened(out_10), 0), 0),
         c_11 |-> AesCtr_encrypt(left_wire.on_key,
                     AesCtr_encrypt(right_wire.on_key, Flattened(out_11), 0), 0)]

\* The keys of the two nested encryptions of a ciphertext in
\* assign_ciphertexts, the one applied first at position 1:
\* left_cipher.encrypt(&right_cipher.encrypt(.., 0), 0).
EncryptOrder(left_key, right_key) == <<right_key, left_key>>

\* Two nested encryptions with counter 0, keys[1] applied first.
NestedEncrypt(keys, data) ==
    AesCtr_encrypt(keys[2], AesCtr_encrypt(keys[1], data, 0), 0)

\* GarbledGate::assign_ciphertexts: the four ciphertexts of a gate.
assign_ciphertexts(op, left_wire, right_wire, parent_wire) ==
    LET out_on_key == parent_wire.on_key
        out_off_key == parent_wire.off_key
        out_00 == IF OpBit(op, 0) THEN out_on_key ELSE out_off_key
        out_01 == IF OpBit(op, 1) THEN out_on_key ELSE out_off_key
        out_10 == IF OpBit(op, 2) THEN out_on_key ELSE out_off_key
        out_11 == IF OpBit(op, 3) THEN out_on_key ELSE out_off_key
    IN  [c_00 |-> NestedEncrypt(EncryptOrder(left_wire.off_key, right_wire.off_key),
                     Flattened(out_00)),
         c_01 |-> NestedEncrypt(EncryptOrder(left_wire.off_key, right_wire.on_key),
                     Flattened(out_01)),
         c_10 |-> NestedEncrypt(EncryptOrder(left_wire.on_key, right_wire.off_key),
                     Flattened(out_10)),
         c_11 |-> NestedEncrypt(EncryptOrder(left_wire.on_key, right_wire.on_key),
                     Flattened(out_11))]

\* The number of GarbledWire::new calls GarbledNode::garble makes on a subtree.
RECURSIVE NewWires(_)
NewWires(node) ==
    IF node.kind = "Input" THEN 0
    ELSE (IF node.left.kind = "Gate" THEN 1 ELSE 0)
         + (IF node.right.kind = "Gate" THEN 1 ELSE 0)
         + NewWires(node.left) + NewWires(node.right)

\* input_wires.get(&idx).unwrap() fails somewhere in GarbledNode::garble.
RECURSIVE GarblePanics(_, _)
GarblePanics(node, input_wires) ==
    /\ node.kind = "Gate"
    /\ \/ node.left.kind = "Input" /\ node.left.idx \notin DOMAIN input_wires
       \/ node.right.kind = "Input" /\ node.right.idx \notin DOMAIN input_wires
       \/ GarblePanics(node.left, input_wires)
       \/ GarblePanics(node.right, input_wires)

\* garble with every Input child read from the map at index 0.
RECURSIVE garble_first_wire(_, _, _, _, _)
garble_first_wire(node, parent_wire, input_wires, seed, ctr) ==
    IF node.kind = "Input" THEN [kind |-> "Input", idx |-> node.idx]
    ELSE
      LET leftNew == IF node.left.kind = "Gate" THEN 1 ELSE 0
          rightNew == IF node.right.kind = "Gate" THEN 1 ELSE 0
          left_wire == IF node.left.kind = "Input"
                       THEN input_wires[0]
                       ELSE GarbledWire_new(seed, ctr)
          right_wire == IF node.right.kind = "Input"
                        THEN input_wires[0]
                        ELSE GarbledWire_new(seed, ctr + leftNew)
          ctrLeft == ctr + leftNew + rightNew
          left_child == garble_first_wire(node.left, left_wire, input_wires,
                                          seed, ctrLeft)
          right_child == garble_first_wire(node.right, right_wire, input_wires,
                                           seed, ctrLeft + NewWires(node.left))
          c == assign_ciphertexts(node.op, left_wire, right_wire, parent_wire)
      IN  [kind |-> "Gate",
           c_00 |-> c.c_00, c_01 |-> c.c_01, c_10 |-> c.c_10, c_11 |-> c.c_11,
           left |-> left_child, right |-> right_child,
           left_wire |-> left_wire, right_wire |-> right_wire,
           parent_wire |-> parent_wire, op |-> node.op]

\* GarbledNode::garble; ctr is the number of wires drawn so far in the run.
RECURSIVE garble(_, _, _, _, _)
garble(node, parent_wire, input_wires, seed, ctr) ==
    IF node.kind = "Input" THEN [kind |-> "Input", idx |-> node.idx]
    ELSE
      LET leftNew == IF node.left.kind = "Gate" THEN 1 ELSE 0
          rightNew == IF node.right.kind = "Gate" THEN 1 ELSE 0
          left_wire == IF node.left.kind = "Input"
                       THEN input_wires[node.left.idx]
                       ELSE GarbledWire_new(seed, ctr)
          right_wire == IF node.right.kind = "Input"
                        THEN input_wires[node.right.idx]
                        ELSE GarbledWire_new(seed, ctr + leftNew)
          ctrLeft == ctr + leftNew + rightNew
          left_child == garble(node.left, left_wire, input_wires, seed, ctrLeft)
          right_child == garble(node.right, right_wire, input_wires, seed,
                                ctrLeft + NewWires(node.left))
          c == assign_ciphertexts(node.op, left_wire, right_wire, parent_wire)
      IN  [kind |-> "Gate",
           c_00 |-> c.c_00, c_01 |-> c.c_01, c_10 |-> c.c_10, c_11 |-> c.c_11,
           left |-> left_child, right |-> right_child,
           left_wire |-> left_wire, right_wire |-> right_wire,
           parent_wire |-> parent_wire, op |-> node.op]

\* The input-wire map of impl From<Circuit> for GarbledCircuit.
InputWires(n, seed) == [i \in 0..(n - 1) |-> GarbledWire_new(seed, i)]

\* impl From<Circuit> for GarbledCircuit, when no lookup fails.
GarbledCircuit_from(circuit, seed) ==
    LET input_wires == InputWires(circuit.n, seed)
    IN  [out |-> garble(circuit.out, GarbledWire_out_wire, input_wires, seed,
                        circuit.n),
         input_wires |-> input_wires,
         n |-> circuit.n]

(***************************************************************************)
(* The receiver's view and the shipped form (receiver_backend.rs,          *)
(* garbler_backend.rs).  An absent protobuf message field is <<>>, a       *)
(* present one <<m>>.                                                      *)
(***************************************************************************)
\* impl From<GarbledNode> for GarbledNodeRecv
RECURSIVE RecvOfGarbled(_)
RecvOfGarbled(value) ==
    IF value.kind = "Input" THEN [kind |-> "Input", idx |-> value.idx]
    ELSE [kind |-> "Gate",
          c_00 |-> value.c_00, c_01 |-> value.c_01,
          c_10 |-> value.c_10, c_11 |-> value.c_11,
          left |-> RecvOfGarbled(value.left),
          right |-> RecvOfGarbled(value.right)]

\* impl From<GarbledCircuit> for GarbledCircuitRecv
CircuitRecvOfGarbled(value) == [out |-> RecvOfGarbled(value.out), n |-> value.n]

\* x as i64, x a usize: the same bits read as a signed integer.
AsI64(x) == IF x >= Pow(2, WORD_BITS - 1) THEN x - Pow(2, WORD_BITS) ELSE x

\* y as usize, y an i64: the same bits read as an unsigned integer.
AsUsize(y) == y % Pow(2, WORD_BITS)

\* impl From<GarbledNodeRecv> for GarbledNodeSend
RECURSIVE SendOfRecv(_)
SendOfRecv(value) ==
    IF value.kind = "Input"
    THEN [input |-> <<[idx |-> AsI64(value.idx)]>>, gate |-> <<>>]
    ELSE [input |-> <<>>,
          gate |-> <<[c_00 |-> value.c_00, c_01 |-> value.c_01,
                      c_10 |-> value.c_10, c_11 |-> value.c_11,
                      left |-> <<SendOfRecv(value.left)>>,
                      right |-> <<SendOfRecv(value.right)>>]>>]

\* gate.unwrap(), left.unwrap() or right.unwrap() fails while decoding.
RECURSIVE RecvOfSendPanics(_)
RecvOfSendPanics(value) ==
    /\ value.input = <<>>
    /\ \/ value.gate = <<>>
       \/ value.gate[1].left = <<>>
       \/ value.gate[1].right = <<>>
       \/ RecvOfSendPanics(value.gate[1].left[1])
       \/ RecvOfSendPanics(value.gate[1].right[1])

\* A decoding that takes the right child first.
RECURSIVE RecvOfSend_mirrored(_)
RecvOfSend_mirrored(value) ==
    IF value.input # <<>>
    THEN [kind |-> "Input", idx |-> AsUsize(value.input[1].idx)]
    ELSE LET gate == value.gate[1]
         IN  [kind |-> "Gate",
              c_00 |-> gate.c_00, c_01 |-> gate.c_01,
              c_10 |-> gate.c_10, c_11 |-> gate.c_11,
              left |-> RecvOfSend_mirrored(gate.right[1]),
              right |-> RecvOfSend_mirrored(gate.left[1])]

\* impl From<GarbledNodeSend> for GarbledNodeRecv, when no unwrap fails.
RECURSIVE RecvOfSend(_)
RecvOfSend(value) ==
    IF value.input # <<>>
    THEN [kind |-> "Input", idx |-> AsUsize(value.input[1].idx)]
    ELSE LET gate == value.gate[1]
         IN  [kind |-> "Gate",
              c_00 |-> gate.c_00, c_01 |-> gate.c_01,
              c_10 |-> gate.c_10, c_11 |-> gate.c_11,
              left |-> RecvOfSend(gate.left[1]),
              right |-> RecvOfSend(gate.right[1])]

\* impl From<GarbledCircuitSend> for GarbledCircuitRecv
CircuitRecvOfSend(value) ==
    [out |-> RecvOfSend(value.out[1]), n |-> AsUsize(value.n)]

\* The GarbledCircuitSend message send_garbled_circuit builds.
GarbledCircuitMsg(garbled_circuit) ==
    LET recv_circuit == CircuitRecvOfGarbled(garbled_circuit)
    IN  [type |-> "GarbledCircuitSend",
         n |-> AsI64(garbled_circuit.n),
         out |-> <<SendOfRecv(recv_circuit.out)>>]

(***************************************************************************)
(* Garbled evaluation (receiver_backend.rs).  inputs is the sequence of    *)
(* labels, input index i at position i + 1.                                *)
(***************************************************************************)
\* inputs[*idx] is out of bounds somewhere in GarbledNodeRecv::eval.
RECURSIVE RecvEvalPanics(_, _)
RecvEvalPanics(node, inputs) ==
    IF node.kind = "Input" THEN node.idx >= Len(inputs)
    ELSE RecvEvalPanics(node.left, inputs) \/ RecvEvalPanics(node.right, inputs)

\* The two decryptions with the right child's label applied first.
DecryptOrder_right_first(left_out, right_out) == <<right_out, left_out>>

\* The labels of the two nested decryptions of a ciphertext in eval, the one
\* applied first at position 1:
\* right_cipher.decrypt(&left_cipher.decrypt(.., 0), 0).
DecryptOrder(left_out, right_out) == <<left_out, right_out>>

\* Two nested decryptions with counter 0, keys[1] applied first.
NestedDecrypt(keys, data) ==
    AesCtr_decrypt(keys[2], AesCtr_decrypt(keys[1], data, 0), 0)

\* d_00, d_01, d_10, d_11 of a gate under the labels its children returned.
Decryptions(gate, left_out, right_out) ==
    LET keys == DecryptOrder(left_out, right_out)
    IN  <<NestedDecrypt(keys, gate.c_00), NestedDecrypt(keys, gate.c_01),
          NestedDecrypt(keys, gate.c_10), NestedDecrypt(keys, gate.c_11)>>

\* The chain with its tests in the reverse order.
ChosenIndex_reversed(d) ==
    IF EndsWithZeros(d[4]) THEN 4
    ELSE IF EndsWithZeros(d[3]) THEN 3
    ELSE IF EndsWithZeros(d[2]) THEN 2
    ELSE 1

\* The if / else-if chain of GarbledNodeRecv::eval: the decryption it returns
\* the first KEY_SIZE bytes of (1 for d_00 ... 4 for d_11).
ChosenIndex(d) ==
    IF EndsWithZeros(d[1]) THEN 1
    ELSE IF EndsWithZeros(d[2]) THEN 2
    ELSE IF EndsWithZeros(d[3]) THEN 3
    ELSE 4

\* GarbledNodeRecv::eval
RECURSIVE RecvEval(_, _)
RecvEval(node, inputs) ==
    IF node.kind = "Input" THEN inputs[node.idx + 1]
    ELSE LET left_out == RecvEval(node.left, inputs)
             right_out == RecvEval(node.right, inputs)
             d == Decryptions(node, left_out, right_out)
         IN  d[ChosenIndex(d)].hi

(***************************************************************************)
(* RSA (crypto::rsa): modular exponentiation over a table of keypairs      *)
(* n = p * q, e * d = 1 mod (p - 1)(q - 1).                                *)
(***************************************************************************)
\* One step of a multiplication taken 6 bits at a time.
MulStep(t, a, c, n) == ((t * 64) + (a * c)) % n

\* a * b mod n for a, b < n < 2^25: b is taken 6 bits at a time so that no
\* intermediate product leaves 31 bits.
MulMod(a, b, n) ==
    MulStep(MulStep(MulStep(MulStep((a * (b \div 16777216)) % n,
                                    a, (b \div 262144) % 64, n),
                            a, (b \div 4096) % 64, n),
                    a, (b \div 64) % 64, n),
            a, b % 64, n)

\* acc * b^e mod n, e taken 2 bits at a time from the low end.
RECURSIVE ModPowAcc(_, _, _, _)
ModPowAcc(b, e, n, acc) ==
    IF e = 0 THEN acc
    ELSE IF b = 0 \/ acc = 0 THEN 0
    ELSE LET b2 == MulMod(b, b, n)
             r == e % 4
         IN  ModPowAcc(MulMod(b2, b2, n), e \div 4, n,
                       IF r = 0 THEN acc
                       ELSE IF r = 1 THEN MulMod(acc, b, n)
                       ELSE IF r = 2 THEN MulMod(acc, b2, n)
                       ELSE MulMod(MulMod(acc, b2, n), b, n))

\* b^e mod n
ModPow(b, e, n) == ModPowAcc(b % n, e, n, 1 % n)

MakeKeypair(e, n, d) == [public |-> [e |-> e, n |-> n], private |-> [d |-> d, n |-> n]]

\* PrivateKey::decrypt: c^d mod n
Rsa_decrypt(private, c) == ModPow(c, private.d, private.n)

\* The keypairs the oblivious-transfer bench runs over: 2 * 5 and 3 * 5.
OtKeypairs == {MakeKeypair(3, 10, 3), MakeKeypair(7, 10, 3), MakeKeypair(3, 15, 3)}

\* The messages the oblivious-transfer bench sends under modulus n: every
\* message below n up to OtFull, the least, a middle and the greatest above.
OtMessages(n) == IF n <= OtFull THEN 0..(n - 1) ELSE {0, n \div 2, n - 1}

\* Keypair::new(None, None) in a session: a modulus above every label read
\* as a big-endian integer (257 * 263, and 4099 * 4111 for longer labels).
SessionKeypairs ==
    {kp \in {MakeKeypair(65537, 67591, 63489), MakeKeypair(65537, 16850989, 15665993)} :
        /\ kp.public.n > LabelSpace
        /\ kp.public.n < 2 * LabelSpace}

(***************************************************************************)
(* Oblivious transfer (ot.rs).  b is the usize index, 0 or 1.              *)
(***************************************************************************)
\* ObTransferSender::new with the nonces it drew
ObTransferSender_new(msgs, keypair, xs) ==
    [msgs |-> msgs, keypair |-> keypair, xs |-> xs]

\* ObTransferReceiver::new with the scalar it drew
ObTransferReceiver_new(sender_pubkey, xs, k) ==
    [xs |-> xs, k |-> k, sender_pubkey |-> sender_pubkey]

\* ObTransferSender::gen_combined
gen_combined(self, v) ==
    LET n == self.keypair.public.n
        x_0 == self.xs[1]
        x_1 == self.xs[2]
        k_0 == Rsa_decrypt(self.keypair.private, (v + (n - x_0)) % n)
        k_1 == Rsa_decrypt(self.keypair.private, (v + (n - x_1)) % n)
        m_0 == self.msgs[1]
        m_1 == self.msgs[2]
    IN  <<(m_0 + k_0) % n, (m_1 + k_1) % n>>

\* A blinding that multiplies by k instead of raising it to the power e.
blind_idx_linear(self, b) ==
    ((IF b = 0 THEN self.xs[1] ELSE self.xs[2]) * self.k) % self.sender_pubkey.n

\* ObTransferReceiver::blind_idx
blind_idx(self, b) ==
    ((IF b = 0 THEN self.xs[1] ELSE self.xs[2])
        + ModPow(self.k, self.sender_pubkey.e, self.sender_pubkey.n))
      % self.sender_pubkey.n

\* An unblinding that forgets to subtract k.
derive_msg_keep_k(self, m_primes, b) ==
    (IF b = 0 THEN m_primes[1] ELSE m_primes[2]) % self.sender_pubkey.n

\* ObTransferReceiver::derive_msg
derive_msg(self, m_primes, b) ==
    ((IF b = 0 THEN m_primes[1] ELSE m_primes[2])
        + (self.sender_pubkey.n - self.k))
      % self.sender_pubkey.n


\* A test that is true when any bit from position i up is set.
BitSet_from(net_worth, i) == net_worth \div Pow(2, i) # 0

(***************************************************************************)
(* The comparison circuit and the garbler's labels (garbler_backend.rs).   *)
(***************************************************************************)
\* (net_worth & (1 << i)) != 0
BitSet(net_worth, i) == (net_worth \div Pow(2, i)) % 2 = 1

\* An equality gate built with XOR_GATE in place of XNOR_GATE.
XorOf(j, n) == Gate(XOR_GATE, Input(j), Input(n + j))

\* xs[j] of construct_circuit(n)
XnorOf(j, n) == Gate(XNOR_GATE, Input(j), Input(n + j))

\* The inner loop of construct_circuit: cmp_hat ANDed with xs[j], ..., xs[n - 1].
RECURSIVE AndChain(_, _, _)
AndChain(cmp_hat, j, n) ==
    IF j >= n THEN cmp_hat
    ELSE AndChain(Gate(AND_GATE, cmp_hat, XnorOf(j, n)), j + 1, n)

CmpHat(i, n) == AndChain(Gate(MY_GATE, Input(i), Input(n + i)), i + 1, n)

\* `out` after the iterations n - 1, ..., i of the outer loop of construct_circuit.
RECURSIVE OutAfter(_, _)
OutAfter(i, n) ==
    IF i = n - 1 THEN CmpHat(i, n)
    ELSE Gate(OR_GATE, OutAfter(i + 1, n), CmpHat(i, n))

\* The plaintext circuit construct_circuit(n) garbles, n >= 1.
ComparisonCircuit(n) == Circuit_new(OutAfter(0, n))

\* construct_circuit
construct_circuit(n, seed) == GarbledCircuit_from(ComparisonCircuit(n), seed)

\* A key selection that sends the off key for a set bit.
InputKeysSwapped(g, net_worth) ==
    [k \in 1..(g.n \div 2) |->
        IF BitSet(net_worth, k - 1) THEN g.input_wires[k - 1].off_key
        ELSE g.input_wires[k - 1].on_key]

\* The keys of the GarblerKeys message of send_input_keys.
InputKeys(g, net_worth) ==
    [k \in 1..(g.n \div 2) |->
        IF BitSet(net_worth, k - 1) THEN g.input_wires[k - 1].on_key
        ELSE g.input_wires[k - 1].off_key]

(***************************************************************************)
(* State.  Six specifications share the variables: a session of the two    *)
(* binaries (Spec), the two processes from the prompt on with failing      *)
(* sends and receives (SpecMain), the garbling bench (SpecGarble), the     *)
(* shipping bench (SpecShip), the oblivious-transfer bench (SpecOT) and    *)
(* the circuit-builder bench (SpecBuild).  The variables a specification   *)
(* does not use keep their initial value.                                  *)
(***************************************************************************)
VARIABLES
    seed,           \* the entropy stream of the run
    garbled,        \* <<>>, or <<g>> with g the garbler's GarbledCircuit
    keypair,        \* <<>>, or <<kp>> with kp the sender's RSA keypair
    sender,         \* <<>>, or <<s>> with s the current ObTransferSender
    receiver,       \* <<>>, or <<r>> with r the current ObTransferReceiver
    circuit,        \* bench: the plaintext Circuit under test
    input,          \* bench: the Boolean input vector
    bpc,            \* bench: position
    out_label,      \* bench: <<>>, or <<l>> with l the label garbled evaluation returned
    plain_out,      \* bench: <<>>, or <<b>> with b the result of Circuit::eval
    build_n,        \* builder bench: the argument of construct_circuit
    ot_pc,          \* OT bench: position
    ot_b,           \* OT bench: the receiver's choice
    ot_v,           \* OT bench: the blinded value the sender sees
    ot_m_primes,    \* OT bench: the sender's reply
    ot_msg,         \* OT bench: <<>>, or <<m>> with m the message the receiver derived
    g_line,         \* garbler: the line typed at the prompt, until it is parsed
    r_line,         \* receiver: the line typed at the prompt, until it is parsed
    g_net_worth,    \* garbler: net_worth
    gpc,            \* garbler: position in main / listen
    g_i,            \* garbler: the OT loop's i
    g_v,            \* garbler: the bytes of the OtBlindedIdx it received
    g_result,       \* garbler: <<>>, or <<b>> with b the EvalResult it received
    r_net_worth,    \* receiver: net_worth
    rpc,            \* receiver: position in main / connect
    r_i,            \* receiver: the OT loop's i
    r_v,            \* receiver: the blinded index it is about to send
    r_circuit,      \* receiver: <<>>, or <<c>> with c the GarbledCircuitRecv
    circuit_inputs, \* receiver: circuit_inputs, a sequence of byte strings
    r_pubkey,       \* receiver: <<>>, or <<pk>> with pk the garbler's PublicKey
    r_out,          \* receiver: <<>>, or <<l>> with l the label circuit_recv.eval returned
    to_receiver,    \* the stream, garbler to receiver: messages sent and not yet received
    to_garbler,     \* the stream, receiver to garbler
    wire_log        \* every message type put on the stream so far, in order

vars ==
    <<seed, garbled, keypair, sender, receiver, circuit, input, bpc,
      out_label, plain_out, build_n, ot_pc, ot_b, ot_v, ot_m_primes, ot_msg,
      g_line, r_line, g_net_worth, gpc, g_i, g_v, g_result, r_net_worth,
      rpc, r_i, r_v, r_circuit, circuit_inputs, r_pubkey, r_out,
      to_receiver, to_garbler, wire_log>>

benchIdle ==
    /\ circuit = Circuit_new(Input(0))
    /\ input = <<>>
    /\ bpc = "idle"
    /\ out_label = <<>>
    /\ plain_out = <<>>
    /\ build_n = 0

otIdle ==
    /\ ot_pc = "idle"
    /\ ot_b = 0
    /\ ot_v = 0
    /\ ot_m_primes = <<0, 0>>
    /\ ot_msg = <<>>

sessionIdle ==
    /\ g_line = <<>>
    /\ r_line = <<>>
    /\ g_net_worth = 0
    /\ gpc = "idle"
    /\ g_i = 0
    /\ g_v = <<>>
    /\ g_result = <<>>
    /\ r_net_worth = 0
    /\ rpc = "idle"
    /\ r_i = 0
    /\ r_v = 0
    /\ r_circuit = <<>>
    /\ circuit_inputs = <<>>
    /\ r_pubkey = <<>>
    /\ r_out = <<>>
    /\ to_receiver = <<>>
    /\ to_garbler = <<>>
    /\ wire_log = <<>>

\* MessageStream::send_msg
Send(stream, msg) == Append(stream, msg)

(***************************************************************************)
(* The garbling bench: garble a circuit, evaluate its receiver view on the *)
(* labels of an input vector, evaluate the plaintext circuit.              *)
(***************************************************************************)
Leaves == {Input(i) : i \in 0..MaxIdx}
DeepOps == {AND_GATE, MY_GATE}
Level1 == Leaves \cup {Gate(op, l, r) : op \in DeepOps, l \in Leaves, r \in Leaves}
Level2 == Level1 \cup {Gate(op, l, r) : op \in DeepOps, l \in Level1, r \in Level1}
SingleGates == {Gate(op, l, r) : op \in 0..15, l \in Leaves, r \in Leaves}
BenchCircuits == Level2 \cup SingleGates \cup {ComplexCircuit}

\* The input vectors of a circuit with n inputs: one value for every input
\* index the bench uses.
InputVectors(n) == [1..(IF n > MaxIdx + 1 THEN n ELSE MaxIdx + 1) -> BOOLEAN]

\* The label vector of input vector v: for input i the on label of wire i when
\* v[i] is true, its off label otherwise.
LabelVector(g, v) ==
    [k \in 1..g.n |-> IF v[k] THEN g.input_wires[k - 1].on_key
                      ELSE g.input_wires[k - 1].off_key]

\* result[0] != 0
Decode(label) == label[1] # 0

InitGarble ==
    /\ seed \in Seeds
    /\ circuit \in {Circuit_new(out) : out \in BenchCircuits}
    /\ input \in InputVectors(circuit.n)
    /\ garbled = <<>>
    /\ bpc = "start"
    /\ out_label = <<>>
    /\ plain_out = <<>>
    /\ build_n = 0
    /\ keypair = <<>> /\ sender = <<>> /\ receiver = <<>>
    /\ otIdle
    /\ sessionIdle

\* Circuit::eval(input); every index of a bench circuit is within input.
EvalCircuit ==
    /\ bpc = "start"
    /\ plain_out' = <<NodeEval(circuit.out, input)>>
    /\ bpc' = "plain_done"
    /\ UNCHANGED <<seed, garbled, keypair, sender, receiver, circuit, input,
                   out_label, build_n, ot_pc, ot_b, ot_v, ot_m_primes,
                   ot_msg, g_line, r_line, g_net_worth, gpc, g_i, g_v,
                   g_result, r_net_worth, rpc, r_i, r_v, r_circuit,
                   circuit_inputs, r_pubkey, r_out, to_receiver, to_garbler,
                   wire_log>>

\* GarbledCircuit::from(circuit)
Garble ==
    /\ bpc = "start"
    /\ IF GarblePanics(circuit.out, InputWires(circuit.n, seed))
       THEN /\ bpc' = "garble_panic"
            /\ garbled' = garbled
       ELSE /\ bpc' = "garbled"
            /\ garbled' = <<GarbledCircuit_from(circuit, seed)>>
    /\ UNCHANGED <<seed, keypair, sender, receiver, circuit, input,
                   out_label, plain_out, build_n, ot_pc, ot_b, ot_v,
                   ot_m_primes, ot_msg, g_line, r_line, g_net_worth, gpc,
                   g_i, g_v, g_result, r_net_worth, rpc, r_i, r_v, r_circuit,
                   circuit_inputs, r_pubkey, r_out, to_receiver, to_garbler,
                   wire_log>>

\* GarbledCircuitRecv::from(garbled).eval(label vector of input)
Evaluate ==
    /\ bpc = "garbled"
    /\ LET recv == CircuitRecvOfGarbled(garbled[1])
           labels == LabelVector(garbled[1], input)
       IN  IF RecvEvalPanics(recv.out, labels)
           THEN /\ bpc' = "eval_panic"
                /\ out_label' = out_label
           ELSE /\ bpc' = "evaluated"
                /\ out_label' = <<RecvEval(recv.out, labels)>>
    /\ UNCHANGED <<seed, garbled, keypair, sender, receiver, circuit, input,
                   plain_out, build_n, ot_pc, ot_b, ot_v, ot_m_primes,
                   ot_msg, g_line, r_line, g_net_worth, gpc, g_i, g_v,
                   g_result, r_net_worth, rpc, r_i, r_v, r_circuit,
                   circuit_inputs, r_pubkey, r_out, to_receiver, to_garbler,
                   wire_log>>

\* The label vectors GarbledCircuitRecv::eval can be called on besides the
\* one of an input vector: the labels of v with the off label of the next
\* wire, which is no label of wire k - 1, at position k.
LabelVectors(g, v) ==
    {[LabelVector(g, v) EXCEPT ![k] = g.input_wires[k % g.n].off_key] : k \in 1..g.n}

\* GarbledCircuitRecv::from(garbled).eval(labels), labels any vector of
\* KEY_SIZE-byte strings of the circuit's length
EvaluateOn ==
    /\ bpc = "garbled"
    /\ \E labels \in LabelVectors(garbled[1], input) :
          LET recv == CircuitRecvOfGarbled(garbled[1])
          IN  /\ circuit_inputs' = labels
              /\ IF RecvEvalPanics(recv.out, labels)
                 THEN /\ bpc' = "eval_panic"
                      /\ out_label' = out_label
                 ELSE /\ bpc' = "evaluated_on"
                      /\ out_label' = <<RecvEval(recv.out, labels)>>
    /\ UNCHANGED <<seed, garbled, keypair, sender, receiver, circuit, input,
                   plain_out, build_n, ot_pc, ot_b, ot_v, ot_m_primes,
                   ot_msg, g_line, r_line, g_net_worth, gpc, g_i, g_v,
                   g_result, r_net_worth, rpc, r_i, r_v, r_circuit, r_pubkey,
                   r_out, to_receiver, to_garbler, wire_log>>

NextGarble == EvalCircuit \/ Garble \/ Evaluate \/ EvaluateOn

SpecGarble == InitGarble /\ [][NextGarble]_vars

(***************************************************************************)
(* The shipping bench: garble a circuit, put a GarbledCircuitSend message  *)
(* on the stream, decode it on the receiver's side.                        *)
(***************************************************************************)
\* The circuits the bench ships: the garbling bench's and the single input
\* with the greatest index a usize holds.
ShipCircuits == BenchCircuits \cup {Input(Pow(2, WORD_BITS) - 1)}

\* Gate::new(), the Gate message with every field at its default.
DefaultGate ==
    [c_00 |-> [hi |-> <<>>, lo |-> {}], c_01 |-> [hi |-> <<>>, lo |-> {}],
     c_10 |-> [hi |-> <<>>, lo |-> {}], c_11 |-> [hi |-> <<>>, lo |-> {}],
     left |-> <<>>, right |-> <<>>]

\* The GarbledNodeSend messages that differ from node at one node, which
\* carries both the input and the gate field, or neither.
RECURSIVE MalformedNodes(_)
MalformedNodes(node) ==
    {[input |-> <<>>, gate |-> <<>>]}
        \cup (IF node.input # <<>>
              THEN {[node EXCEPT !.gate = <<DefaultGate>>]}
              ELSE {[node EXCEPT !.input = <<[idx |-> 0]>>]}
                       \cup {[node EXCEPT !.gate[1].left = <<x>>] :
                                x \in MalformedNodes(node.gate[1].left[1])}
                       \cup {[node EXCEPT !.gate[1].right = <<x>>] :
                                x \in MalformedNodes(node.gate[1].right[1])})

InitShip ==
    /\ seed \in Seeds
    /\ circuit \in {Circuit_new(out) : out \in ShipCircuits}
    /\ input = <<>>
    /\ garbled = <<>>
    /\ bpc = "start"
    /\ out_label = <<>>
    /\ plain_out = <<>>
    /\ build_n = 0
    /\ keypair = <<>> /\ sender = <<>> /\ receiver = <<>>
    /\ otIdle
    /\ sessionIdle

\* send_garbled_circuit(stream, garbled)
Ship ==
    /\ bpc = "garbled"
    /\ to_receiver' = Send(to_receiver, GarbledCircuitMsg(garbled[1]))
    /\ bpc' = "shipped"
    /\ UNCHANGED <<seed, garbled, keypair, sender, receiver, circuit, input,
                   out_label, plain_out, build_n, ot_pc, ot_b, ot_v,
                   ot_m_primes, ot_msg, g_line, r_line, g_net_worth, gpc,
                   g_i, g_v, g_result, r_net_worth, rpc, r_i, r_v, r_circuit,
                   circuit_inputs, r_pubkey, r_out, to_garbler, wire_log>>

\* A peer whose GarbledCircuitSend has a node with both fields or neither.
ShipMalformed ==
    /\ bpc = "garbled"
    /\ \E x \in MalformedNodes(GarbledCircuitMsg(garbled[1]).out[1]) :
          to_receiver' =
              Send(to_receiver, [GarbledCircuitMsg(garbled[1]) EXCEPT !.out = <<x>>])
    /\ bpc' = "shipped_malformed"
    /\ UNCHANGED <<seed, garbled, keypair, sender, receiver, circuit, input,
                   out_label, plain_out, build_n, ot_pc, ot_b, ot_v,
                   ot_m_primes, ot_msg, g_line, r_line, g_net_worth, gpc,
                   g_i, g_v, g_result, r_net_worth, rpc, r_i, r_v, r_circuit,
                   circuit_inputs, r_pubkey, r_out, to_garbler, wire_log>>

\* receive_msg::<GarbledCircuitSend> and circuit.into() of connect
ReceiveShipped ==
    /\ bpc \in {"shipped", "shipped_malformed"}
    /\ to_receiver' = Tail(to_receiver)
    /\ IF RecvOfSendPanics(Head(to_receiver).out[1])
       THEN /\ r_circuit' = r_circuit
            /\ bpc' = "decode_panic"
       ELSE /\ r_circuit' = <<CircuitRecvOfSend(Head(to_receiver))>>
            /\ bpc' = IF bpc = "shipped" THEN "decoded" ELSE "decoded_malformed"
    /\ UNCHANGED <<seed, garbled, keypair, sender, receiver, circuit, input,
                   out_label, plain_out, build_n, ot_pc, ot_b, ot_v,
                   ot_m_primes, ot_msg, g_line, r_line, g_net_worth, gpc,
                   g_i, g_v, g_result, r_net_worth, rpc, r_i, r_v,
                   circuit_inputs, r_pubkey, r_out, to_garbler, wire_log>>

NextShip == Garble \/ Ship \/ ShipMalformed \/ ReceiveShipped

SpecShip == InitShip /\ [][NextShip]_vars

(***************************************************************************)
(* The circuit-builder bench: build the n-bit comparison circuit and       *)
(* evaluate it on the bits of two net worths, garbler's bit i at input i,  *)
(* receiver's bit i at input n + i.                                        *)
(***************************************************************************)
\* The input vector of net worths a and b for the n-bit comparison circuit.
ComparisonInput(a, b, n) ==
    [k \in 1..(2 * n) |-> IF k <= n THEN BitSet(a, k - 1) ELSE BitSet(b, k - n - 1)]

InitBuild ==
    /\ seed \in Seeds
    /\ garbled = <<>>
    /\ keypair = <<>> /\ sender = <<>> /\ receiver = <<>>
    /\ build_n \in 1..(BITS + 1)
    /\ circuit = Circuit_new(Input(0))
    /\ input = <<>>
    /\ bpc = "start"
    /\ out_label = <<>>
    /\ plain_out = <<>>
    /\ otIdle
    /\ sessionIdle

\* construct_circuit(build_n)
Build ==
    /\ bpc = "start"
    /\ circuit' = ComparisonCircuit(build_n)
    /\ garbled' = <<construct_circuit(build_n, seed)>>
    /\ bpc' = "built"
    /\ UNCHANGED <<seed, keypair, sender, receiver, input, out_label,
                   plain_out, build_n, ot_pc, ot_b, ot_v, ot_m_primes,
                   ot_msg, g_line, r_line, g_net_worth, gpc, g_i, g_v,
                   g_result, r_net_worth, rpc, r_i, r_v, r_circuit,
                   circuit_inputs, r_pubkey, r_out, to_receiver, to_garbler,
                   wire_log>>

\* Circuit::eval on the bits of a and b
EvalPlain ==
    /\ bpc = "built"
    /\ \E a \in 0..(Pow(2, build_n) - 1), b \in 0..(Pow(2, build_n) - 1) :
          /\ input' = ComparisonInput(a, b, build_n)
          /\ g_net_worth' = a
          /\ r_net_worth' = b
          /\ plain_out' = <<NodeEval(circuit.out, ComparisonInput(a, b, build_n))>>
    /\ bpc' = "plain_done"
    /\ UNCHANGED <<seed, garbled, keypair, sender, receiver, circuit,
                   out_label, build_n, ot_pc, ot_b, ot_v, ot_m_primes,
                   ot_msg, g_line, r_line, gpc, g_i, g_v, g_result, rpc, r_i,
                   r_v, r_circuit, circuit_inputs, r_pubkey, r_out,
                   to_receiver, to_garbler, wire_log>>

NextBuild == Build \/ EvalPlain

SpecBuild == InitBuild /\ [][NextBuild]_vars

(***************************************************************************)
(* The oblivious-transfer bench: one transfer between a sender and a       *)
(* receiver, every draw of the nonces and of the scalar enumerated.        *)
(***************************************************************************)
InitOT ==
    /\ seed = 0
    /\ garbled = <<>>
    /\ benchIdle
    /\ sessionIdle
    /\ keypair \in {<<kp>> : kp \in OtKeypairs}
    /\ sender = <<>>
    /\ receiver = <<>>
    /\ ot_pc = "start"
    /\ ot_b = 0
    /\ ot_v = 0
    /\ ot_m_primes = <<0, 0>>
    /\ ot_msg = <<>>

\* ObTransferSender::new(msgs, keypair)
OtSenderNew ==
    /\ ot_pc = "start"
    /\ \E m_0 \in OtMessages(keypair[1].public.n), m_1 \in OtMessages(keypair[1].public.n),
          x_0 \in 0..(keypair[1].public.n - 1), x_1 \in 0..(keypair[1].public.n - 1) :
          sender' = <<ObTransferSender_new(<<m_0, m_1>>, keypair[1], <<x_0, x_1>>)>>
    /\ ot_pc' = "sender"
    /\ UNCHANGED <<seed, garbled, keypair, receiver, circuit, input, bpc,
                   out_label, plain_out, build_n, ot_b, ot_v, ot_m_primes,
                   ot_msg, g_line, r_line, g_net_worth, gpc, g_i, g_v,
                   g_result, r_net_worth, rpc, r_i, r_v, r_circuit,
                   circuit_inputs, r_pubkey, r_out, to_receiver, to_garbler,
                   wire_log>>

\* ObTransferReceiver::new(sender_pubkey, sender.xs())
OtReceiverNew ==
    /\ ot_pc = "sender"
    /\ \E k \in 0..(keypair[1].public.n - 1) :
          receiver' = <<ObTransferReceiver_new(keypair[1].public, sender[1].xs, k)>>
    /\ ot_pc' = "receiver"
    /\ UNCHANGED <<seed, garbled, keypair, sender, circuit, input, bpc,
                   out_label, plain_out, build_n, ot_b, ot_v, ot_m_primes,
                   ot_msg, g_line, r_line, g_net_worth, gpc, g_i, g_v,
                   g_result, r_net_worth, rpc, r_i, r_v, r_circuit,
                   circuit_inputs, r_pubkey, r_out, to_receiver, to_garbler,
                   wire_log>>

\* receiver.blind_idx(b)
OtBlind ==
    /\ ot_pc = "receiver"
    /\ \E b \in {0, 1} :
          /\ ot_b' = b
          /\ ot_v' = blind_idx(receiver[1], b)
    /\ ot_pc' = "blinded"
    /\ UNCHANGED <<seed, garbled, keypair, sender, receiver, circuit, input,
                   bpc, out_label, plain_out, build_n, ot_m_primes, ot_msg,
                   g_line, r_line, g_net_worth, gpc, g_i, g_v, g_result,
                   r_net_worth, rpc, r_i, r_v, r_circuit, circuit_inputs,
                   r_pubkey, r_out, to_receiver, to_garbler, wire_log>>

\* sender.gen_combined(v)
OtGenCombined ==
    /\ ot_pc = "blinded"
    /\ ot_m_primes' = gen_combined(sender[1], ot_v)
    /\ ot_pc' = "combined"
    /\ UNCHANGED <<seed, garbled, keypair, sender, receiver, circuit, input,
                   bpc, out_label, plain_out, build_n, ot_b, ot_v, ot_msg,
                   g_line, r_line, g_net_worth, gpc, g_i, g_v, g_result,
                   r_net_worth, rpc, r_i, r_v, r_circuit, circuit_inputs,
                   r_pubkey, r_out, to_receiver, to_garbler, wire_log>>

\* receiver.derive_msg(m_primes, b)
OtDerive ==
    /\ ot_pc = "combined"
    /\ ot_msg' = <<derive_msg(receiver[1], ot_m_primes, ot_b)>>
    /\ ot_pc' = "derived"
    /\ UNCHANGED <<seed, garbled, keypair, sender, receiver, circuit, input,
                   bpc, out_label, plain_out, build_n, ot_b, ot_v,
                   ot_m_primes, g_line, r_line, g_net_worth, gpc, g_i, g_v,
                   g_result, r_net_worth, rpc, r_i, r_v, r_circuit,
                   circuit_inputs, r_pubkey, r_out, to_receiver, to_garbler,
                   wire_log>>

NextOT == OtSenderNew \/ OtReceiverNew \/ OtBlind \/ OtGenCombined \/ OtDerive

SpecOT == InitOT /\ [][NextOT]_vars

(***************************************************************************)
(* A session: the garbler binary (bin/garbler.rs) and the receiver binary  *)
(* (bin/receiver.rs) over one TCP connection.  The stream is a FIFO per    *)
(* direction; a send appends and returns, a receive blocks until a message *)
(* is there and fails when the peer has closed and nothing is left.        *)
(***************************************************************************)
NetWorths == 0..(Pow(2, BITS + 1) - 1)

\* The values a session's gen_biguint_below(n) draws are taken from.
OtDraws(n) == {2, n - 1}

GarblerClosed == gpc \in {"done", "io_error", "proto_error"}
ReceiverClosed == rpc \in {"done", "io_error", "proto_error", "panic"}

\* The position of the garbler after OT round i - 1.
GarblerAfterRound(i) == IF i < garbled[1].n THEN "send_xs" ELSE "recv_result"

\* The position of the receiver after OT round i - 1.
ReceiverAfterRound(i) == IF i < r_circuit[1].n \div 2 THEN "recv_xs" ELSE "evaluate"

Init ==
    /\ seed \in Seeds
    /\ garbled = <<>>
    /\ keypair = <<>>
    /\ sender = <<>>
    /\ receiver = <<>>
    /\ benchIdle
    /\ otIdle
    /\ g_line = <<>>
    /\ r_line = <<>>
    /\ g_net_worth \in NetWorths
    /\ gpc = "main"
    /\ g_i = 0
    /\ g_v = <<>>
    /\ g_result = <<>>
    /\ r_net_worth \in NetWorths
    /\ rpc = "main"
    /\ r_i = 0
    /\ r_v = 0
    /\ r_circuit = <<>>
    /\ circuit_inputs = <<>>
    /\ r_pubkey = <<>>
    /\ r_out = <<>>
    /\ to_receiver = <<>>
    /\ to_garbler = <<>>
    /\ wire_log = <<>>

\* listen: TcpListener::bind
GarblerBind ==
    /\ gpc = "main"
    /\ gpc' = "bound"
    /\ UNCHANGED <<seed, garbled, keypair, sender, receiver, circuit, input,
                   bpc, out_label, plain_out, build_n, ot_pc, ot_b, ot_v,
                   ot_m_primes, ot_msg, g_line, r_line, g_net_worth, g_i,
                   g_v, g_result, r_net_worth, rpc, r_i, r_v, r_circuit,
                   circuit_inputs, r_pubkey, r_out, to_receiver, to_garbler,
                   wire_log>>

\* listen: construct_circuit(10), circuit.input_keys(), Keypair::new
GarblerConstruct ==
    /\ gpc = "bound"
    /\ garbled' = <<construct_circuit(BITS, seed)>>
    /\ \E kp \in SessionKeypairs : keypair' = <<kp>>
    /\ gpc' = "listening"
    /\ UNCHANGED <<seed, sender, receiver, circuit, input, bpc, out_label,
                   plain_out, build_n, ot_pc, ot_b, ot_v, ot_m_primes,
                   ot_msg, g_line, r_line, g_net_worth, g_i, g_v, g_result,
                   r_net_worth, rpc, r_i, r_v, r_circuit, circuit_inputs,
                   r_pubkey, r_out, to_receiver, to_garbler, wire_log>>

\* listen: listener.incoming().next()
GarblerAccept ==
    /\ gpc = "listening"
    /\ rpc \notin {"idle", "start", "input_error", "main"}
    /\ gpc' = "send_circuit"
    /\ UNCHANGED <<seed, garbled, keypair, sender, receiver, circuit, input,
                   bpc, out_label, plain_out, build_n, ot_pc, ot_b, ot_v,
                   ot_m_primes, ot_msg, g_line, r_line, g_net_worth, g_i,
                   g_v, g_result, r_net_worth, rpc, r_i, r_v, r_circuit,
                   circuit_inputs, r_pubkey, r_out, to_receiver, to_garbler,
                   wire_log>>

\* send_garbled_circuit
GarblerSendCircuit ==
    /\ gpc = "send_circuit"
    /\ to_receiver' = Send(to_receiver, GarbledCircuitMsg(garbled[1]))
    /\ wire_log' = Append(wire_log, "GarbledCircuitSend")
    /\ gpc' = "send_keys"
    /\ UNCHANGED <<seed, garbled, keypair, sender, receiver, circuit, input,
                   bpc, out_label, plain_out, build_n, ot_pc, ot_b, ot_v,
                   ot_m_primes, ot_msg, g_line, r_line, g_net_worth, g_i,
                   g_v, g_result, r_net_worth, rpc, r_i, r_v, r_circuit,
                   circuit_inputs, r_pubkey, r_out, to_garbler>>

\* A garbler that goes on without sending its keys.
GarblerSkipKeys ==
    /\ gpc = "send_keys"
    /\ gpc' = "send_pubkey"
    /\ UNCHANGED <<seed, garbled, keypair, sender, receiver, circuit, input,
                   bpc, out_label, plain_out, build_n, ot_pc, ot_b, ot_v,
                   ot_m_primes, ot_msg, g_line, r_line, g_net_worth, g_i,
                   g_v, g_result, r_net_worth, rpc, r_i, r_v, r_circuit,
                   circuit_inputs, r_pubkey, r_out, to_receiver, to_garbler,
                   wire_log>>

\* send_input_keys
GarblerSendKeys ==
    /\ gpc = "send_keys"
    /\ to_receiver' = Send(to_receiver,
            [type |-> "GarblerKeys", keys |-> InputKeys(garbled[1], g_net_worth)])
    /\ wire_log' = Append(wire_log, "GarblerKeys")
    /\ gpc' = "send_pubkey"
    /\ UNCHANGED <<seed, garbled, keypair, sender, receiver, circuit, input,
                   bpc, out_label, plain_out, build_n, ot_pc, ot_b, ot_v,
                   ot_m_primes, ot_msg, g_line, r_line, g_net_worth, g_i,
                   g_v, g_result, r_net_worth, rpc, r_i, r_v, r_circuit,
                   circuit_inputs, r_pubkey, r_out, to_garbler>>

\* listen: send the RsaPubkey message
GarblerSendPubkey ==
    /\ gpc = "send_pubkey"
    /\ to_receiver' = Send(to_receiver,
            [type |-> "RsaPubkey",
             e |-> ToBytesBe(keypair[1].public.e),
             n |-> ToBytesBe(keypair[1].public.n)])
    /\ wire_log' = Append(wire_log, "RsaPubkey")
    /\ g_i' = garbled[1].n \div 2
    /\ gpc' = GarblerAfterRound(garbled[1].n \div 2)
    /\ UNCHANGED <<seed, garbled, keypair, sender, receiver, circuit, input,
                   bpc, out_label, plain_out, build_n, ot_pc, ot_b, ot_v,
                   ot_m_primes, ot_msg, g_line, r_line, g_net_worth, g_v,
                   g_result, r_net_worth, rpc, r_i, r_v, r_circuit,
                   circuit_inputs, r_pubkey, r_out, to_garbler>>

\* A garbler that offers each pair as (on label, off label).
GarblerSendXsSwapped ==
    /\ gpc = "send_xs"
    /\ LET wire == garbled[1].input_wires[g_i]
           msgs == <<FromBytesBe(wire.on_key), FromBytesBe(wire.off_key)>>
       IN  \E x_0 \in OtDraws(keypair[1].public.n), x_1 \in OtDraws(keypair[1].public.n) :
              /\ sender' = <<ObTransferSender_new(msgs, keypair[1], <<x_0, x_1>>)>>
              /\ to_receiver' = Send(to_receiver,
                      [type |-> "Xs", x_0 |-> ToBytesBe(x_0), x_1 |-> ToBytesBe(x_1)])
    /\ wire_log' = Append(wire_log, "Xs")
    /\ gpc' = "recv_blinded"
    /\ UNCHANGED <<seed, garbled, keypair, receiver, circuit, input, bpc,
                   out_label, plain_out, build_n, ot_pc, ot_b, ot_v,
                   ot_m_primes, ot_msg, g_line, r_line, g_net_worth, g_i,
                   g_v, g_result, r_net_worth, rpc, r_i, r_v, r_circuit,
                   circuit_inputs, r_pubkey, r_out, to_garbler>>

\* listen, OT round i: ObTransferSender::new and the Xs message
GarblerSendXs ==
    /\ gpc = "send_xs"
    /\ LET wire == garbled[1].input_wires[g_i]
           msgs == <<FromBytesBe(wire.off_key), FromBytesBe(wire.on_key)>>
       IN  \E x_0 \in OtDraws(keypair[1].public.n), x_1 \in OtDraws(keypair[1].public.n) :
              /\ sender' = <<ObTransferSender_new(msgs, keypair[1], <<x_0, x_1>>)>>
              /\ to_receiver' = Send(to_receiver,
                      [type |-> "Xs", x_0 |-> ToBytesBe(x_0), x_1 |-> ToBytesBe(x_1)])
    /\ wire_log' = Append(wire_log, "Xs")
    /\ gpc' = "recv_blinded"
    /\ UNCHANGED <<seed, garbled, keypair, receiver, circuit, input, bpc,
                   out_label, plain_out, build_n, ot_pc, ot_b, ot_v,
                   ot_m_primes, ot_msg, g_line, r_line, g_net_worth, g_i,
                   g_v, g_result, r_net_worth, rpc, r_i, r_v, r_circuit,
                   circuit_inputs, r_pubkey, r_out, to_garbler>>

\* listen, OT round i: receive the OtBlindedIdx message
GarblerRecvBlinded ==
    /\ gpc = "recv_blinded"
    /\ to_garbler # <<>> \/ ReceiverClosed
    /\ IF to_garbler = <<>>
       THEN /\ gpc' = "io_error"
            /\ UNCHANGED <<to_garbler, g_v>>
       ELSE /\ to_garbler' = Tail(to_garbler)
            /\ IF Head(to_garbler).type = "OtBlindedIdx"
               THEN /\ g_v' = Head(to_garbler).v
                    /\ gpc' = "send_enc"
               ELSE /\ g_v' = g_v
                    /\ gpc' = "proto_error"
    /\ UNCHANGED <<seed, garbled, keypair, sender, receiver, circuit, input,
                   bpc, out_label, plain_out, build_n, ot_pc, ot_b, ot_v,
                   ot_m_primes, ot_msg, g_line, r_line, g_net_worth, g_i,
                   g_result, r_net_worth, rpc, r_i, r_v, r_circuit,
                   circuit_inputs, r_pubkey, r_out, to_receiver, wire_log>>

\* listen, OT round i: gen_combined and the OtEncMessages message
GarblerSendEnc ==
    /\ gpc = "send_enc"
    /\ LET m_primes == gen_combined(sender[1], FromBytesBe(g_v))
       IN  to_receiver' = Send(to_receiver,
               [type |-> "OtEncMessages",
                m_prime_0 |-> ToBytesBe(m_primes[1]),
                m_prime_1 |-> ToBytesBe(m_primes[2])])
    /\ wire_log' = Append(wire_log, "OtEncMessages")
    /\ g_i' = g_i + 1
    /\ gpc' = GarblerAfterRound(g_i + 1)
    /\ UNCHANGED <<seed, garbled, keypair, sender, receiver, circuit, input,
                   bpc, out_label, plain_out, build_n, ot_pc, ot_b, ot_v,
                   ot_m_primes, ot_msg, g_line, r_line, g_net_worth, g_v,
                   g_result, r_net_worth, rpc, r_i, r_v, r_circuit,
                   circuit_inputs, r_pubkey, r_out, to_garbler>>

\* listen: receive the EvalResult message and return
GarblerRecvResult ==
    /\ gpc = "recv_result"
    /\ to_garbler # <<>> \/ ReceiverClosed
    /\ IF to_garbler = <<>>
       THEN /\ gpc' = "io_error"
            /\ UNCHANGED <<to_garbler, g_result>>
       ELSE /\ to_garbler' = Tail(to_garbler)
            /\ IF Head(to_garbler).type = "EvalResult"
               THEN /\ g_result' = <<Head(to_garbler).result>>
                    /\ gpc' = "done"
               ELSE /\ g_result' = g_result
                    /\ gpc' = "proto_error"
    /\ UNCHANGED <<seed, garbled, keypair, sender, receiver, circuit, input,
                   bpc, out_label, plain_out, build_n, ot_pc, ot_b, ot_v,
                   ot_m_primes, ot_msg, g_line, r_line, g_net_worth, g_i,
                   g_v, r_net_worth, rpc, r_i, r_v, r_circuit,
                   circuit_inputs, r_pubkey, r_out, to_receiver, wire_log>>

\* connect: TcpStream::connect, once the garbler listens
ReceiverConnect ==
    /\ rpc = "main"
    /\ gpc \notin {"idle", "start", "input_error", "main"}
    /\ rpc' = "recv_circuit"
    /\ UNCHANGED <<seed, garbled, keypair, sender, receiver, circuit, input,
                   bpc, out_label, plain_out, build_n, ot_pc, ot_b, ot_v,
                   ot_m_primes, ot_msg, g_line, r_line, g_net_worth, gpc,
                   g_i, g_v, g_result, r_net_worth, r_i, r_v, r_circuit,
                   circuit_inputs, r_pubkey, r_out, to_receiver, to_garbler,
                   wire_log>>

\* connect: receive the GarbledCircuitSend message and decode it
ReceiverRecvCircuit ==
    /\ rpc = "recv_circuit"
    /\ to_receiver # <<>> \/ GarblerClosed
    /\ IF to_receiver = <<>>
       THEN /\ rpc' = "io_error"
            /\ UNCHANGED <<to_receiver, r_circuit>>
       ELSE /\ to_receiver' = Tail(to_receiver)
            /\ IF Head(to_receiver).type # "GarbledCircuitSend"
               THEN /\ r_circuit' = r_circuit
                    /\ rpc' = "proto_error"
               ELSE IF \/ Head(to_receiver).out = <<>>
                       \/ RecvOfSendPanics(Head(to_receiver).out[1])
               THEN /\ r_circuit' = r_circuit
                    /\ rpc' = "panic"
               ELSE /\ r_circuit' = <<CircuitRecvOfSend(Head(to_receiver))>>
                    /\ rpc' = "recv_keys"
    /\ UNCHANGED <<seed, garbled, keypair, sender, receiver, circuit, input,
                   bpc, out_label, plain_out, build_n, ot_pc, ot_b, ot_v,
                   ot_m_primes, ot_msg, g_line, r_line, g_net_worth, gpc,
                   g_i, g_v, g_result, r_net_worth, r_i, r_v, circuit_inputs,
                   r_pubkey, r_out, to_garbler, wire_log>>

\* connect: receive the GarblerKeys message
ReceiverRecvKeys ==
    /\ rpc = "recv_keys"
    /\ to_receiver # <<>> \/ GarblerClosed
    /\ IF to_receiver = <<>>
       THEN /\ rpc' = "io_error"
            /\ UNCHANGED <<to_receiver, circuit_inputs>>
       ELSE /\ to_receiver' = Tail(to_receiver)
            /\ IF Head(to_receiver).type = "GarblerKeys"
               THEN /\ circuit_inputs' = Head(to_receiver).keys
                    /\ rpc' = "recv_pubkey"
               ELSE /\ circuit_inputs' = circuit_inputs
                    /\ rpc' = "proto_error"
    /\ UNCHANGED <<seed, garbled, keypair, sender, receiver, circuit, input,
                   bpc, out_label, plain_out, build_n, ot_pc, ot_b, ot_v,
                   ot_m_primes, ot_msg, g_line, r_line, g_net_worth, gpc,
                   g_i, g_v, g_result, r_net_worth, r_i, r_v, r_circuit,
                   r_pubkey, r_out, to_garbler, wire_log>>

\* connect: receive the RsaPubkey message
ReceiverRecvPubkey ==
    /\ rpc = "recv_pubkey"
    /\ to_receiver # <<>> \/ GarblerClosed
    /\ IF to_receiver = <<>>
       THEN /\ rpc' = "io_error"
            /\ UNCHANGED <<to_receiver, r_pubkey, r_i>>
       ELSE /\ to_receiver' = Tail(to_receiver)
            /\ IF Head(to_receiver).type = "RsaPubkey"
               THEN /\ r_pubkey' = <<[e |-> FromBytesBe(Head(to_receiver).e),
                                     n |-> FromBytesBe(Head(to_receiver).n)]>>
                    /\ r_i' = 0
                    /\ rpc' = ReceiverAfterRound(0)
               ELSE /\ UNCHANGED <<r_pubkey, r_i>>
                    /\ rpc' = "proto_error"
    /\ UNCHANGED <<seed, garbled, keypair, sender, receiver, circuit, input,
                   bpc, out_label, plain_out, build_n, ot_pc, ot_b, ot_v,
                   ot_m_primes, ot_msg, g_line, r_line, g_net_worth, gpc,
                   g_i, g_v, g_result, r_net_worth, r_v, r_circuit,
                   circuit_inputs, r_out, to_garbler, wire_log>>

\* connect, OT round i: receive Xs, ObTransferReceiver::new, blind_idx
ReceiverRecvXs ==
    /\ rpc = "recv_xs"
    /\ to_receiver # <<>> \/ GarblerClosed
    /\ IF to_receiver = <<>>
       THEN /\ rpc' = "io_error"
            /\ UNCHANGED <<to_receiver, receiver, r_v>>
       ELSE /\ to_receiver' = Tail(to_receiver)
            /\ IF Head(to_receiver).type = "Xs"
               THEN /\ \E k \in OtDraws(r_pubkey[1].n) :
                          LET xs == <<FromBytesBe(Head(to_receiver).x_0),
                                      FromBytesBe(Head(to_receiver).x_1)>>
                              r == ObTransferReceiver_new(r_pubkey[1], xs, k)
                              curr_bit == BoolToInt(BitSet(r_net_worth, r_i))
                          IN  /\ receiver' = <<r>>
                              /\ r_v' = blind_idx(r, curr_bit)
                    /\ rpc' = "send_blinded"
               ELSE /\ UNCHANGED <<receiver, r_v>>
                    /\ rpc' = "proto_error"
    /\ UNCHANGED <<seed, garbled, keypair, sender, circuit, input, bpc,
                   out_label, plain_out, build_n, ot_pc, ot_b, ot_v,
                   ot_m_primes, ot_msg, g_line, r_line, g_net_worth, gpc,
                   g_i, g_v, g_result, r_net_worth, r_i, r_circuit,
                   circuit_inputs, r_pubkey, r_out, to_garbler, wire_log>>

\* connect, OT round i: send the OtBlindedIdx message
ReceiverSendBlinded ==
    /\ rpc = "send_blinded"
    /\ to_garbler' = Send(to_garbler, [type |-> "OtBlindedIdx", v |-> ToBytesBe(r_v)])
    /\ wire_log' = Append(wire_log, "OtBlindedIdx")
    /\ rpc' = "recv_enc"
    /\ UNCHANGED <<seed, garbled, keypair, sender, receiver, circuit, input,
                   bpc, out_label, plain_out, build_n, ot_pc, ot_b, ot_v,
                   ot_m_primes, ot_msg, g_line, r_line, g_net_worth, gpc,
                   g_i, g_v, g_result, r_net_worth, r_i, r_v, r_circuit,
                   circuit_inputs, r_pubkey, r_out, to_receiver>>

\* connect, OT round i: receive OtEncMessages, derive_msg, push the key
ReceiverRecvEnc ==
    /\ rpc = "recv_enc"
    /\ to_receiver # <<>> \/ GarblerClosed
    /\ IF to_receiver = <<>>
       THEN /\ rpc' = "io_error"
            /\ UNCHANGED <<to_receiver, circuit_inputs, r_i>>
       ELSE /\ to_receiver' = Tail(to_receiver)
            /\ IF Head(to_receiver).type = "OtEncMessages"
               THEN /\ LET m_primes == <<FromBytesBe(Head(to_receiver).m_prime_0),
                                         FromBytesBe(Head(to_receiver).m_prime_1)>>
                           curr_bit == BoolToInt(BitSet(r_net_worth, r_i))
                       IN  circuit_inputs' = Append(circuit_inputs,
                               ToBytesBe(derive_msg(receiver[1], m_primes, curr_bit)))
                    /\ r_i' = r_i + 1
                    /\ rpc' = ReceiverAfterRound(r_i + 1)
               ELSE /\ UNCHANGED <<circuit_inputs, r_i>>
                    /\ rpc' = "proto_error"
    /\ UNCHANGED <<seed, garbled, keypair, sender, receiver, circuit, input,
                   bpc, out_label, plain_out, build_n, ot_pc, ot_b, ot_v,
                   ot_m_primes, ot_msg, g_line, r_line, g_net_worth, gpc,
                   g_i, g_v, g_result, r_net_worth, r_v, r_circuit, r_pubkey,
                   r_out, to_garbler, wire_log>>

\* connect: convert circuit_inputs to [u8; KEY_SIZE] arrays, circuit_recv.eval
ReceiverEvaluate ==
    /\ rpc = "evaluate"
    /\ IF \/ \E k \in 1..Len(circuit_inputs) : Len(circuit_inputs[k]) # KEY_SIZE
          \/ RecvEvalPanics(r_circuit[1].out, circuit_inputs)
       THEN /\ rpc' = "panic"
            /\ r_out' = r_out
       ELSE /\ r_out' = <<RecvEval(r_circuit[1].out, circuit_inputs)>>
            /\ rpc' = "send_result"
    /\ UNCHANGED <<seed, garbled, keypair, sender, receiver, circuit, input,
                   bpc, out_label, plain_out, build_n, ot_pc, ot_b, ot_v,
                   ot_m_primes, ot_msg, g_line, r_line, g_net_worth, gpc,
                   g_i, g_v, g_result, r_net_worth, r_i, r_v, r_circuit,
                   circuit_inputs, r_pubkey, to_receiver, to_garbler,
                   wire_log>>

\* connect: send the EvalResult message and return
ReceiverSendResult ==
    /\ rpc = "send_result"
    /\ to_garbler' = Send(to_garbler, [type |-> "EvalResult", result |-> r_out[1][1] # 0])
    /\ wire_log' = Append(wire_log, "EvalResult")
    /\ rpc' = "done"
    /\ UNCHANGED <<seed, garbled, keypair, sender, receiver, circuit, input,
                   bpc, out_label, plain_out, build_n, ot_pc, ot_b, ot_v,
                   ot_m_primes, ot_msg, g_line, r_line, g_net_worth, gpc,
                   g_i, g_v, g_result, r_net_worth, r_i, r_v, r_circuit,
                   circuit_inputs, r_pubkey, r_out, to_receiver>>

GarblerStep ==
    \/ GarblerBind
    \/ GarblerConstruct
    \/ GarblerAccept
    \/ GarblerSendCircuit
    \/ GarblerSendKeys
    \/ GarblerSendPubkey
    \/ GarblerSendXs
    \/ GarblerRecvBlinded
    \/ GarblerSendEnc
    \/ GarblerRecvResult

ReceiverStep ==
    \/ ReceiverConnect
    \/ ReceiverRecvCircuit
    \/ ReceiverRecvKeys
    \/ ReceiverRecvPubkey
    \/ ReceiverRecvXs
    \/ ReceiverSendBlinded
    \/ ReceiverRecvEnc
    \/ ReceiverEvaluate
    \/ ReceiverSendResult

Next == GarblerStep \/ ReceiverStep

Spec == Init /\ [][Next]_vars

(***************************************************************************)
(* The bodies of listen and connect run on a circuit other than the one    *)
(* construct_circuit builds: the receiver takes n from the message it is   *)
(* sent, the garbler from the circuit it holds.                            *)
(***************************************************************************)
\* Circuits with an even and with an odd number of inputs.
SessionCircuits == {Gate(AND_GATE, Input(0), Input(1)), ComplexCircuit}

\* listen with `circuit` any garbled circuit: input_keys, Keypair::new
GarblerHold ==
    /\ gpc = "bound"
    /\ \E out \in SessionCircuits :
          garbled' = <<GarbledCircuit_from(Circuit_new(out), seed)>>
    /\ \E kp \in SessionKeypairs : keypair' = <<kp>>
    /\ gpc' = "listening"
    /\ UNCHANGED <<seed, sender, receiver, circuit, input, bpc, out_label,
                   plain_out, build_n, ot_pc, ot_b, ot_v, ot_m_primes,
                   ot_msg, g_line, r_line, g_net_worth, g_i, g_v, g_result,
                   r_net_worth, rpc, r_i, r_v, r_circuit, circuit_inputs,
                   r_pubkey, r_out, to_receiver, to_garbler, wire_log>>

NextAny ==
    \/ GarblerHold
    \/ GarblerBind
    \/ GarblerAccept
    \/ GarblerSendCircuit
    \/ GarblerSendKeys
    \/ GarblerSendPubkey
    \/ GarblerSendXs
    \/ GarblerRecvBlinded
    \/ GarblerSendEnc
    \/ GarblerRecvResult
    \/ ReceiverStep

SpecAny == Init /\ [][NextAny]_vars

(***************************************************************************)
(* The two processes from their start: each reads a line and parses it     *)
(* before it enters listen or connect, and any send or receive may fail.   *)
(***************************************************************************)
\* The lines typed at the prompt: up to MaxLine characters.
Lines == UNION {[1..k -> Chars] : k \in 0..MaxLine}

InitMain ==
    /\ seed \in Seeds
    /\ garbled = <<>>
    /\ keypair = <<>>
    /\ sender = <<>>
    /\ receiver = <<>>
    /\ benchIdle
    /\ otIdle
    /\ g_line \in Lines
    /\ r_line \in Lines
    /\ g_net_worth = 0
    /\ gpc = "start"
    /\ g_i = 0
    /\ g_v = <<>>
    /\ g_result = <<>>
    /\ r_net_worth = 0
    /\ rpc = "start"
    /\ r_i = 0
    /\ r_v = 0
    /\ r_circuit = <<>>
    /\ circuit_inputs = <<>>
    /\ r_pubkey = <<>>
    /\ r_out = <<>>
    /\ to_receiver = <<>>
    /\ to_garbler = <<>>
    /\ wire_log = <<>>

\* A garbler that takes an unparseable line for 0.
GarblerGetNetWorthLenient ==
    /\ gpc = "start"
    /\ g_line' = <<>>
    /\ g_net_worth' = IF CanParse(ToLowercase(Trim(g_line)))
                      THEN ParseUsize(ToLowercase(Trim(g_line)))
                      ELSE 0
    /\ gpc' = "main"
    /\ UNCHANGED <<seed, garbled, keypair, sender, receiver, circuit, input,
                   bpc, out_label, plain_out, build_n, ot_pc, ot_b, ot_v,
                   ot_m_primes, ot_msg, r_line, g_i, g_v, g_result,
                   r_net_worth, rpc, r_i, r_v, r_circuit, circuit_inputs,
                   r_pubkey, r_out, to_receiver, to_garbler, wire_log>>

\* main of the garbler: get_net_worth()
GarblerGetNetWorth ==
    /\ gpc = "start"
    /\ g_line' = <<>>
    /\ IF CanParse(ToLowercase(Trim(g_line)))
       THEN /\ g_net_worth' = ParseUsize(ToLowercase(Trim(g_line)))
            /\ gpc' = "main"
       ELSE /\ g_net_worth' = g_net_worth
            /\ gpc' = "input_error"
    /\ UNCHANGED <<seed, garbled, keypair, sender, receiver, circuit, input,
                   bpc, out_label, plain_out, build_n, ot_pc, ot_b, ot_v,
                   ot_m_primes, ot_msg, r_line, g_i, g_v, g_result,
                   r_net_worth, rpc, r_i, r_v, r_circuit, circuit_inputs,
                   r_pubkey, r_out, to_receiver, to_garbler, wire_log>>

\* main of the receiver: get_net_worth()
ReceiverGetNetWorth ==
    /\ rpc = "start"
    /\ r_line' = <<>>
    /\ IF CanParse(ToLowercase(Trim(r_line)))
       THEN /\ r_net_worth' = ParseUsize(ToLowercase(Trim(r_line)))
            /\ rpc' = "main"
       ELSE /\ r_net_worth' = r_net_worth
            /\ rpc' = "input_error"
    /\ UNCHANGED <<seed, garbled, keypair, sender, receiver, circuit, input,
                   bpc, out_label, plain_out, build_n, ot_pc, ot_b, ot_v,
                   ot_m_primes, ot_msg, g_line, g_net_worth, gpc, g_i, g_v,
                   g_result, r_i, r_v, r_circuit, circuit_inputs, r_pubkey,
                   r_out, to_receiver, to_garbler, wire_log>>

\* The positions of listen at a send_msg or receive_msg.
GarblerIoSteps ==
    {"send_circuit", "send_keys", "send_pubkey", "send_xs", "recv_blinded",
     "send_enc", "recv_result"}

\* The positions of connect at a send_msg or receive_msg.
ReceiverIoSteps ==
    {"recv_circuit", "recv_keys", "recv_pubkey", "recv_xs", "send_blinded",
     "recv_enc", "send_result"}

\* A garbler that starts the session over after a failed send or receive.
GarblerIoRetry ==
    /\ gpc \in GarblerIoSteps \cup {"io_error"}
    /\ gpc' = IF gpc = "io_error" THEN "send_circuit" ELSE "io_error"
    /\ UNCHANGED <<seed, garbled, keypair, sender, receiver, circuit, input,
                   bpc, out_label, plain_out, build_n, ot_pc, ot_b, ot_v,
                   ot_m_primes, ot_msg, g_line, r_line, g_net_worth, g_i,
                   g_v, g_result, r_net_worth, rpc, r_i, r_v, r_circuit,
                   circuit_inputs, r_pubkey, r_out, to_receiver, to_garbler,
                   wire_log>>

\* listen: the send or receive at hand returns Err, `?` returns it from
\* listen and main's unwrap ends the process.
GarblerIoFail ==
    /\ gpc \in GarblerIoSteps
    /\ gpc' = "io_error"
    /\ UNCHANGED <<seed, garbled, keypair, sender, receiver, circuit, input,
                   bpc, out_label, plain_out, build_n, ot_pc, ot_b, ot_v,
                   ot_m_primes, ot_msg, g_line, r_line, g_net_worth, g_i,
                   g_v, g_result, r_net_worth, rpc, r_i, r_v, r_circuit,
                   circuit_inputs, r_pubkey, r_out, to_receiver, to_garbler,
                   wire_log>>

\* connect: the send or receive at hand returns Err, `?` returns it from
\* connect and main's unwrap ends the process.
ReceiverIoFail ==
    /\ rpc \in ReceiverIoSteps
    /\ rpc' = "io_error"
    /\ UNCHANGED <<seed, garbled, keypair, sender, receiver, circuit, input,
                   bpc, out_label, plain_out, build_n, ot_pc, ot_b, ot_v,
                   ot_m_primes, ot_msg, g_line, r_line, g_net_worth, gpc,
                   g_i, g_v, g_result, r_net_worth, r_i, r_v, r_circuit,
                   circuit_inputs, r_pubkey, r_out, to_receiver, to_garbler,
                   wire_log>>

NextMain ==
    \/ GarblerGetNetWorth
    \/ ReceiverGetNetWorth
    \/ GarblerIoFail
    \/ ReceiverIoFail
    \/ GarblerStep
    \/ ReceiverStep

SpecMain == InitMain /\ [][NextMain]_vars


(***************************************************************************)
(* Properties.                                                             *)
(***************************************************************************)
\* The ciphertext positions (1 for 00 ... 4 for 11) whose decryption carries
\* the zero tag.
ValidTags(d) == {p \in 1..4 : EndsWithZeros(d[p])}

\* The position GarbledNodeRecv::eval takes at each gate, gates in pre-order.
RECURSIVE MatchingPositions(_, _)
MatchingPositions(node, inputs) ==
    IF node.kind = "Input" THEN <<>>
    ELSE LET d == Decryptions(node, RecvEval(node.left, inputs),
                              RecvEval(node.right, inputs))
         IN  <<ChosenIndex(d)>> \o MatchingPositions(node.left, inputs)
                 \o MatchingPositions(node.right, inputs)

\* At every gate under node, exactly the decryption at the position of the
\* values the held child labels encode carries the zero tag.
RECURSIVE TagsUnique(_, _)
TagsUnique(node, inputs) ==
    \/ node.kind = "Input"
    \/ LET recv == RecvOfGarbled(node)
           left_out == RecvEval(recv.left, inputs)
           right_out == RecvEval(recv.right, inputs)
           a == IF left_out = node.left_wire.on_key THEN 1 ELSE 0
           b == IF right_out = node.right_wire.on_key THEN 1 ELSE 0
       IN  /\ ValidTags(Decryptions(recv, left_out, right_out)) = {(2 * a) + b + 1}
           /\ TagsUnique(node.left, inputs)
           /\ TagsUnique(node.right, inputs)

\* Some gate under node has no decryption with the zero tag under the labels
\* its children return.
RECURSIVE NoTagGate(_, _)
NoTagGate(node, inputs) ==
    /\ node.kind = "Gate"
    /\ \/ ValidTags(Decryptions(node, RecvEval(node.left, inputs),
                                RecvEval(node.right, inputs))) = {}
       \/ NoTagGate(node.left, inputs)
       \/ NoTagGate(node.right, inputs)

IsPrefix(s, t) == Len(s) <= Len(t) /\ \A k \in 1..Len(s) : s[k] = t[k]

RECURSIVE OtRounds(_)
OtRounds(k) ==
    IF k = 0 THEN <<>>
    ELSE <<"Xs", "OtBlindedIdx", "OtEncMessages">> \o OtRounds(k - 1)

ExpectedOrder ==
    <<"GarbledCircuitSend", "GarblerKeys", "RsaPubkey">> \o OtRounds(BITS)
        \o <<"EvalResult">>

InRange == g_net_worth < Pow(2, BITS) /\ r_net_worth < Pow(2, BITS)

\* C1: for every circuit and input vector, garbled evaluation on the labels of
\* the input vector returns a label that decodes to the plaintext result.
GarblingCorrect ==
    /\ bpc \notin {"garble_panic", "eval_panic"}
    /\ bpc = "evaluated" => Decode(out_label[1]) = NodeEval(circuit.out, input)

\* C2: in a session between net worths a, b < 2^BITS, the EvalResult the
\* receiver sends and the garbler receives is true exactly when a > b.
SessionResult ==
    InRange =>
        /\ \A k \in 1..Len(to_garbler) :
              to_garbler[k].type = "EvalResult"
                  => to_garbler[k].result = (g_net_worth > r_net_worth)
        /\ g_result # <<>> => g_result[1] = (g_net_worth > r_net_worth)

SessionResultWitness ==
    /\ gpc = "done" /\ rpc = "done"
    /\ g_net_worth = Pow(2, BITS) - 1 /\ r_net_worth = 0
    /\ g_result = <<TRUE>>

\* C3: construct_circuit(n) builds a circuit of 2n inputs, the single gate
\* MY_GATE(Input 0, Input 1) when n = 1, that on garbler bit i at input i and
\* receiver bit i at input n + i evaluates to a > b.
BuilderCorrect ==
    /\ bpc \in {"built", "plain_done"} =>
          /\ circuit.n = 2 * build_n
          /\ {NodeInputs(circuit.out)[k] : k \in 1..Len(NodeInputs(circuit.out))}
                = 0..((2 * build_n) - 1)
          /\ build_n = 1 => circuit.out = Gate(MY_GATE, Input(0), Input(1))
    /\ bpc = "plain_done" =>
          /\ input = ComparisonInput(g_net_worth, r_net_worth, build_n)
          /\ plain_out[1] = (g_net_worth > r_net_worth)

BuilderCorrectWitness ==
    /\ bpc = "plain_done"
    /\ build_n = BITS
    /\ g_net_worth = 2 /\ r_net_worth = 1
    /\ plain_out = <<TRUE>>

\* C4: the message the receiver derives from the sender's reply to its
\* blinded choice b is m_b.
OtCorrect == ot_pc = "derived" => ot_msg[1] = sender[1].msgs[ot_b + 1]

OtCorrectWitness ==
    /\ ot_pc = "derived"
    /\ ot_b = 1
    /\ sender[1].msgs[1] # sender[1].msgs[2]
    /\ ot_msg = <<sender[1].msgs[2]>>

\* C5: the positions the receiver matches at the gates are the same for every
\* garbler input that gives the same comparison result.
InputPrivacy ==
    (rpc = "send_result" /\ InRange) =>
        \A a2 \in 0..(Pow(2, BITS) - 1) :
            ((a2 > r_net_worth) = (g_net_worth > r_net_worth)) =>
                MatchingPositions(r_circuit[1].out,
                        InputKeys(garbled[1], a2)
                            \o SubSeq(circuit_inputs, BITS + 1, 2 * BITS))
                    = MatchingPositions(r_circuit[1].out, circuit_inputs)

\* C6: unblinding the reply for the other choice never gives the other message.
OtOtherHidden ==
    ot_pc = "derived" =>
        derive_msg(receiver[1], ot_m_primes, 1 - ot_b) # sender[1].msgs[(1 - ot_b) + 1]

\* C7: for a fixed public key and nonces, as k ranges over [0, n) the blinded
\* value takes each value of [0, n) exactly once, for b = 0 and for b = 1.
BlindedUniform ==
    ot_pc = "blinded" =>
        LET pk == receiver[1].sender_pubkey
        IN  \A b \in {0, 1} :
                {blind_idx(ObTransferReceiver_new(pk, receiver[1].xs, k), b) :
                    k \in 0..(pk.n - 1)} = 0..(pk.n - 1)

BlindedUniformWitness ==
    /\ ot_pc = "blinded"
    /\ ot_b = 1
    /\ receiver[1].xs[1] # receiver[1].xs[2]
    /\ receiver[1].k > 1
    /\ ot_v # blind_idx(receiver[1], 0)

\* The type the garbler is about to send, "" when it is not at a send.
GarblerSending ==
    CASE gpc = "send_circuit" -> "GarbledCircuitSend"
      [] gpc = "send_keys" -> "GarblerKeys"
      [] gpc = "send_pubkey" -> "RsaPubkey"
      [] gpc = "send_xs" -> "Xs"
      [] gpc = "send_enc" -> "OtEncMessages"
      [] OTHER -> ""

\* The type the garbler waits for, "" when it is not at a receive.
GarblerExpects ==
    CASE gpc = "recv_blinded" -> "OtBlindedIdx"
      [] gpc = "recv_result" -> "EvalResult"
      [] OTHER -> ""

ReceiverSending ==
    CASE rpc = "send_blinded" -> "OtBlindedIdx"
      [] rpc = "send_result" -> "EvalResult"
      [] OTHER -> ""

ReceiverExpects ==
    CASE rpc = "recv_circuit" -> "GarbledCircuitSend"
      [] rpc = "recv_keys" -> "GarblerKeys"
      [] rpc = "recv_pubkey" -> "RsaPubkey"
      [] rpc = "recv_xs" -> "Xs"
      [] rpc = "recv_enc" -> "OtEncMessages"
      [] OTHER -> ""

\* The messages are on the stream in the protocol's order and no receive got
\* a type other than the one it expected.
OrderedStream ==
    /\ IsPrefix(wire_log, ExpectedOrder)
    /\ gpc # "proto_error"
    /\ rpc # "proto_error"

\* C8 as stated: the order, and at every point the party that is about to send
\* faces a party waiting for exactly that type.
LockStepOrder ==
    /\ OrderedStream
    /\ GarblerSending # "" => ReceiverExpects = GarblerSending
    /\ ReceiverSending # "" => GarblerExpects = ReceiverSending

\* C8: the messages are on the stream in the protocol's order, no receive gets
\* a type other than the one it expects, and a sender runs ahead of its reader
\* by at most four messages (garbler) or one (receiver).
StreamOrder ==
    /\ OrderedStream
    /\ Len(to_receiver) <= 4
    /\ Len(to_garbler) <= 1
    /\ to_receiver # <<>> => ReceiverExpects \in {"", Head(to_receiver).type}
    /\ to_garbler # <<>> => GarblerExpects \in {"", Head(to_garbler).type}

StreamOrderWitness ==
    /\ gpc = "done"
    /\ wire_log = ExpectedOrder

\* C9: every session ends with both parties finished, one EvalResult sent and
\* received.  A step of a session is never repeated (each moves its party
\* forward), so every run reaches a state in which both parties have stopped;
\* the session terminates as claimed when every such state is this one.
SessionTerminates ==
    (GarblerClosed /\ ReceiverClosed) =>
        /\ gpc = "done"
        /\ rpc = "done"
        /\ g_result # <<>>
        /\ Cardinality({k \in 1..Len(wire_log) : wire_log[k] = "EvalResult"}) = 1

\* C10: at every gate exactly one of the four decryptions under the held
\* labels carries the zero tag, the one at the position of the values the
\* labels encode.
TagUniqueness ==
    bpc = "evaluated" => TagsUnique(garbled[1].out, LabelVector(garbled[1], input))

\* C11: when at some gate none of the four decryptions carries the zero tag,
\* garbled evaluation aborts and returns no output label.
AnomalyAborts ==
    (/\ bpc = "evaluated_on"
     /\ NoTagGate(CircuitRecvOfGarbled(garbled[1]).out, circuit_inputs))
        => out_label = <<>>

\* C12: a transmitted node that has both the input and the gate field, or
\* neither, is never decoded into a garbled node.
ExactlyOneVariant == bpc # "decoded_malformed"

\* The garbler neither sends nor receives in a step and keeps its position.
GarblerQuiet ==
    /\ gpc' = gpc
    /\ Len(to_receiver') <= Len(to_receiver)
    /\ Len(to_garbler') >= Len(to_garbler)
    /\ UNCHANGED <<g_i, g_v, g_result, sender, keypair, garbled>>

\* The receiver neither sends nor receives in a step and keeps its position.
ReceiverQuiet ==
    /\ rpc' = rpc
    /\ Len(to_garbler') <= Len(to_garbler)
    /\ Len(to_receiver') >= Len(to_receiver)
    /\ UNCHANGED <<r_i, r_v, r_circuit, circuit_inputs, r_pubkey, r_out, receiver>>

\* C13: once a send or receive of a party has failed, that party sends and
\* receives nothing more and stays at its error exit, whatever the step that
\* failed; a failed step itself puts nothing on the stream.
IoErrorFinal ==
    [][/\ gpc = "io_error" => GarblerQuiet
       /\ rpc = "io_error" => ReceiverQuiet
       /\ (gpc # "io_error" /\ gpc' = "io_error") => wire_log' = wire_log
       /\ (rpc # "io_error" /\ rpc' = "io_error") => wire_log' = wire_log]_vars

\* Both parties have failed in the second OT round, the receiver at a
\* receive after it had taken everything the garbler sent.
IoErrorFinalWitness ==
    /\ gpc = "io_error"
    /\ rpc = "io_error"
    /\ g_i > BITS
    /\ to_receiver = <<>>
    /\ r_i = g_i - BITS

\* No peer has reached the garbler: nobody connected and nothing was sent.
GarblerOffline == rpc \in {"start", "main", "input_error"} /\ wire_log = <<>>

\* The receiver has reached no peer: nobody accepted and nothing was sent.
ReceiverOffline ==
    /\ gpc \in {"start", "main", "bound", "listening", "input_error"}
    /\ wire_log = <<>>

\* C14: in both binaries the net worth is parsed before any socket is bound
\* or connected: a party that has not parsed yet, or whose line did not
\* parse, has had no network activity, and an unparseable line ends the
\* process at its input error.
InputErrorFirst ==
    [][/\ (gpc = "start" /\ ~CanParse(ToLowercase(Trim(g_line))))
            => gpc' \in {"start", "input_error"}
       /\ (rpc = "start" /\ ~CanParse(ToLowercase(Trim(r_line))))
            => rpc' \in {"start", "input_error"}
       /\ gpc = "start" => gpc' \in {"start", "main", "input_error"}
       /\ rpc = "start" => rpc' \in {"start", "main", "input_error"}
       /\ gpc = "input_error" => gpc' = "input_error"
       /\ rpc = "input_error" => rpc' = "input_error"
       /\ gpc' \in {"start", "input_error"} => GarblerOffline'
       /\ rpc' \in {"start", "input_error"} => ReceiverOffline']_vars

\* The garbler's line did not parse while the receiver's did and the
\* receiver waits to connect.
InputErrorFirstWitness ==
    /\ gpc = "input_error"
    /\ rpc = "main"
    /\ r_net_worth > 0

\* The wires attached to the gates under node: each gate's output wire and
\* the wires to its children.
RECURSIVE GateWires(_)
GateWires(node) ==
    IF node.kind = "Input" THEN {}
    ELSE {node.parent_wire, node.left_wire, node.right_wire}
             \cup GateWires(node.left) \cup GateWires(node.right)

\* Every wire of a garbled circuit.
AllWires(g) == {g.input_wires[i] : i \in DOMAIN g.input_wires} \cup GateWires(g.out)

RECURSIVE InnerOutputWires(_)
InnerOutputWires(node) ==
    IF node.kind = "Input" THEN <<>>
    ELSE (IF node.left.kind = "Gate" THEN <<node.left.parent_wire>> ELSE <<>>)
             \o (IF node.right.kind = "Gate" THEN <<node.right.parent_wire>> ELSE <<>>)
             \o InnerOutputWires(node.left) \o InnerOutputWires(node.right)

\* C16: in a garbled circuit whose root is a gate the root's output wire has
\* the all-zeros off label and the all-ones on label, and every other gate's
\* output wire is a wire of its own: not the distinguished wire, no input
\* wire and no other gate's output wire.
OutputWireAtRoot ==
    (garbled # <<>> /\ garbled[1].out.kind = "Gate") =>
        LET inner == InnerOutputWires(garbled[1].out)
        IN  /\ garbled[1].out.parent_wire.off_key = [i \in 1..KEY_SIZE |-> 0]
            /\ garbled[1].out.parent_wire.on_key = [i \in 1..KEY_SIZE |-> 1]
            /\ \A k \in 1..Len(inner) :
                  /\ inner[k] # garbled[1].out.parent_wire
                  /\ \A i \in DOMAIN garbled[1].input_wires :
                        inner[k] # garbled[1].input_wires[i]
                  /\ \A j \in 1..Len(inner) : inner[j] = inner[k] => j = k

\* A garbled circuit whose root has two gates as children.
OutputWireAtRootWitness ==
    /\ bpc = "garbled"
    /\ Len(InnerOutputWires(garbled[1].out)) = 2

\* The ops of the gate-level tests.
TestedOps == {AND_GATE, OR_GATE, XOR_GATE, XNOR_GATE, MY_GATE}

\* C17: for each op among AND, OR, XOR, XNOR and MY_GATE the garbled
\* single-gate circuit Gate(op, Input 0, Input 1), evaluated on the labels of
\* the input combination (l, r), returns the output wire's on label when bit
\* 2l + r of op is 1 and its off label otherwise.
GateTruthTables ==
    \A op \in TestedOps :
        (bpc = "evaluated" /\ circuit.out = Gate(op, Input(0), Input(1))) =>
            out_label[1] =
                IF OpBit(op, (2 * BoolToInt(input[1])) + BoolToInt(input[2]))
                THEN garbled[1].out.parent_wire.on_key
                ELSE garbled[1].out.parent_wire.off_key

\* MY_GATE evaluated on (1, 0), its one combination with output 1.
GateTruthTablesWitness ==
    /\ bpc = "evaluated"
    /\ circuit.out = Gate(MY_GATE, Input(0), Input(1))
    /\ input = <<TRUE, FALSE>>
    /\ out_label = <<[i \in 1..KEY_SIZE |-> 1]>>

\* The value of input index i in the bench's input vector.
In(i) == input[i + 1]

RECURSIVE SameTree(_, _)
SameTree(recv, g) ==
    /\ recv.kind = g.kind
    /\ IF g.kind = "Input"
       THEN /\ DOMAIN recv = {"kind", "idx"}
            /\ recv.idx = g.idx
       ELSE /\ DOMAIN recv = {"kind", "c_00", "c_01", "c_10", "c_11", "left", "right"}
            /\ recv.c_00 = g.c_00 /\ recv.c_01 = g.c_01
            /\ recv.c_10 = g.c_10 /\ recv.c_11 = g.c_11
            /\ SameTree(recv.left, g.left)
            /\ SameTree(recv.right, g.right)

\* The fields of a GarbledNodeSend message and of the nodes below it: an
\* index at an input; four ciphertexts and two children at a gate.
RECURSIVE ShippedFields(_)
ShippedFields(node) ==
    /\ DOMAIN node = {"input", "gate"}
    /\ node.input # <<>> => DOMAIN node.input[1] = {"idx"}
    /\ node.gate # <<>> =>
          /\ DOMAIN node.gate[1] = {"c_00", "c_01", "c_10", "c_11", "left", "right"}
          /\ ShippedFields(node.gate[1].left[1])
          /\ ShippedFields(node.gate[1].right[1])

\* C19: a garbled circuit converted to the receiver view, encoded as a
\* GarbledCircuitSend message and decoded again gives a receiver-view circuit
\* with the same n, the same tree, the same input indices and the same four
\* ciphertexts per gate; the message carries no wire label and no op.
ShippingRoundTrip ==
    /\ bpc = "shipped" =>
          /\ DOMAIN Head(to_receiver) = {"type", "n", "out"}
          /\ ShippedFields(Head(to_receiver).out[1])
    /\ bpc = "decoded" =>
          /\ r_circuit[1].n = garbled[1].n
          /\ SameTree(r_circuit[1].out, garbled[1].out)

\* A decoded circuit whose root has a gate on the left and an input on the
\* right.
ShippingRoundTripWitness ==
    /\ bpc = "decoded"
    /\ r_circuit[1].out.kind = "Gate"
    /\ r_circuit[1].out.left.kind = "Gate"
    /\ r_circuit[1].out.right.kind = "Input"

\* C20: in a completed session the vector the receiver evaluates on has one
\* entry per input; entry i of the first half is the label of input wire i
\* for bit i of the garbler's net worth, entry m + j of the second half the
\* label of input wire m + j for bit j of the receiver's net worth, on label
\* for a set bit and off label otherwise.
LabelVectorDelivered ==
    rpc \in {"send_result", "done"} =>
        LET n == garbled[1].n
            m == n \div 2
            wires == garbled[1].input_wires
        IN  /\ Len(circuit_inputs) = n
            /\ n = 2 * m
            /\ \A i \in 0..(m - 1) :
                  circuit_inputs[i + 1] =
                      IF BitSet(g_net_worth, i) THEN wires[i].on_key
                      ELSE wires[i].off_key
            /\ \A j \in 0..(m - 1) :
                  circuit_inputs[m + j + 1] =
                      IF BitSet(r_net_worth, j) THEN wires[m + j].on_key
                      ELSE wires[m + j].off_key

\* A completed session in which the parties' bits differ at both positions
\* of the first two: on and off labels occur in both halves.
LabelVectorDeliveredWitness ==
    /\ rpc = "done"
    /\ gpc = "done"
    /\ BitSet(g_net_worth, 0) /\ ~BitSet(g_net_worth, 1)
    /\ ~BitSet(r_net_worth, 0) /\ BitSet(r_net_worth, 1)
    /\ Len(circuit_inputs) = 2 * BITS

\* C21: every label the receiver obtains in an OT round is, after the
\* garbler's conversion to an integer, the transfer and the receiver's
\* conversion back to bytes, the KEY_SIZE bytes of the label of its wire
\* for the receiver's bit, labels with leading zero bytes included.
OtLabelRoundTrip ==
    garbled # <<>> =>
        LET m == garbled[1].n \div 2
            wires == garbled[1].input_wires
        IN  \A k \in (m + 1)..Len(circuit_inputs) :
                circuit_inputs[k] =
                    IF BitSet(r_net_worth, k - m - 1) THEN wires[k - 1].on_key
                    ELSE wires[k - 1].off_key

\* The number of messages of type t put on the stream so far.
Sent(t) == Cardinality({k \in 1..Len(wire_log) : wire_log[k] = t})

RECURSIVE SelectsFirstTag(_, _)
SelectsFirstTag(node, inputs) ==
    \/ node.kind = "Input"
    \/ LET d == Decryptions(node, RecvEval(node.left, inputs),
                            RecvEval(node.right, inputs))
           v == ValidTags(d)
           first == IF v = {} THEN 4 ELSE CHOOSE p \in v : \A q \in v : p <= q
       IN  /\ RecvEval(node, inputs) = d[first].hi
           /\ SelectsFirstTag(node.left, inputs)
           /\ SelectsFirstTag(node.right, inputs)

\* C23: every gate of a garbled evaluation returns the first KEY_SIZE bytes
\* of the first decryption, in the order c_00, c_01, c_10, c_11, whose last
\* KEY_SIZE bytes are all zero, and those of the c_11 decryption when none
\* of the four has a zero tag.
GateOutputSelection ==
    /\ bpc = "evaluated" =>
          SelectsFirstTag(CircuitRecvOfGarbled(garbled[1]).out,
                          LabelVector(garbled[1], input))
    /\ bpc = "evaluated_on" =>
          SelectsFirstTag(CircuitRecvOfGarbled(garbled[1]).out, circuit_inputs)

\* An evaluation in which some gate has no decryption with the zero tag.
GateOutputSelectionWitness ==
    /\ bpc = "evaluated_on"
    /\ out_label # <<>>
    /\ NoTagGate(CircuitRecvOfGarbled(garbled[1]).out, circuit_inputs)

\* The wire of a gate towards child is the map's wire of the child's index
\* when the child is an input, and otherwise the child's output wire, which
\* is no wire of the map.
SideWireOk(child, wire, input_wires) ==
    IF child.kind = "Input"
    THEN child.idx \in DOMAIN input_wires /\ wire = input_wires[child.idx]
    ELSE /\ wire = child.parent_wire
         /\ \A i \in DOMAIN input_wires : wire # input_wires[i]

RECURSIVE WiresConsistent(_, _)
WiresConsistent(node, input_wires) ==
    \/ node.kind = "Input"
    \/ /\ SideWireOk(node.left, node.left_wire, input_wires)
       /\ SideWireOk(node.right, node.right_wire, input_wires)
       /\ WiresConsistent(node.left, input_wires)
       /\ WiresConsistent(node.right, input_wires)

\* C24: at every gate of a garbled circuit the wire on each side is the
\* input-wire map's wire of index i when the child there is Input(i), so all
\* gates reading input i use one label pair, and when the child is a gate it
\* is a wire of its own that is also that child's output wire.
WireConsistency ==
    garbled # <<>> => WiresConsistent(garbled[1].out, garbled[1].input_wires)

\* The garbled x AND ((x OR y) XOR z): input 0 feeds two gates, and two gates
\* are children of gates.
WireConsistencyWitness ==
    /\ bpc = "garbled"
    /\ circuit.out = ComplexCircuit
    /\ garbled[1].out.left_wire = garbled[1].out.right.left.left_wire
    /\ garbled[1].out.right_wire = garbled[1].out.right.parent_wire

\* C25: garbling a circuit made by Circuit::new completes without a failed
\* lookup, and the key set of the input-wire map it produces is exactly the
\* set of input indices that occur in the circuit.
InputWireAllocation ==
    /\ bpc # "garble_panic"
    /\ garbled # <<>> =>
          LET inputs == NodeInputs(circuit.out)
          IN  DOMAIN garbled[1].input_wires = {inputs[k] : k \in 1..Len(inputs)}

\* C26: a circuit made by Circuit::new has n equal to the number of distinct
\* input indices under its root, and every index below n occurs in the tree.
PlainCircuitInvariant ==
    LET inputs == NodeInputs(circuit.out)
        occurring == {inputs[k] : k \in 1..Len(inputs)}
    IN  /\ circuit.n = Cardinality(occurring)
        /\ \A i \in 0..(circuit.n - 1) : i \in occurring

\* The gates under a garbled node.
RECURSIVE Gates(_)
Gates(node) ==
    IF node.kind = "Input" THEN {}
    ELSE {node} \cup Gates(node.left) \cup Gates(node.right)

\* The label eval obtains from a child of a gate of the evaluated circuit.
ChildLabel(child) ==
    RecvEval(RecvOfGarbled(child), LabelVector(garbled[1], input))

LowBitsCompared ==
    LET a == g_net_worth % Pow(2, BITS)
        b == r_net_worth % Pow(2, BITS)
    IN  /\ \A k \in 1..Len(to_garbler) :
              to_garbler[k].type = "EvalResult" => to_garbler[k].result = (a > b)
        /\ g_result # <<>> => g_result[1] = (a > b)

\* A completed session in which the garbler's net worth is 2^BITS, the
\* receiver's is 1, and the result is false.
LowBitsComparedWitness ==
    /\ gpc = "done" /\ rpc = "done"
    /\ g_net_worth = Pow(2, BITS) /\ r_net_worth = 1
    /\ g_result = <<FALSE>>

=============================================================================
